---- MODULE Spec2Model ----
(***************************************************************************)
(* The data-access layer of the chat client (services/TursoService.ts).    *)
(* Every `await this.client.execute(...)` is one atomic statement on the   *)
(* remote database; two clients run their calls statement by statement.    *)
(***************************************************************************)
EXTENDS Integers, Sequences, FiniteSets, TLC

VARIABLES
    users,          \* rows of table users        [id, email, is_admin, created_at]
    api_keys,       \* rows of table api_keys     [id, user_id, key, created_at]
    api_settings,   \* rows of table api_settings [id, user_id, openrouter_key, ...]
    chats,          \* rows of table chats        [id, title, user_id, created_at, last_message]
    messages,       \* rows of table messages     [id, chat_id, role, content, created_at]
    foreign_keys,   \* whether the connection enforces FOREIGN KEY clauses
    now,            \* CURRENT_TIMESTAMP of the database
    uuid,           \* values crypto.randomUUID() has handed out, per kind
    pc,             \* per client: the statement its running call executes next
    args,           \* per client: the arguments of its running call
    local,          \* per client: the local constants of its running call
    ret,            \* per client: what its finished call returned or threw
    chatOwner,      \* history: the user_id each chat id was created with (0: never created)
    app             \* per client: the React state of App and AdminDialog, and the
                    \* position of the App-level async function that is running

vars == <<users, api_keys, api_settings, chats, messages, foreign_keys, now, uuid,
          pc, args, local, ret, chatOwner, app>>
db == <<users, api_keys, api_settings, chats, messages>>

\* ---------------------------------------------------------------- bounds
MaxUsers == 2
MaxKeys == 3
MaxChats == 1
MaxMessages == 1
\* entries of the user list of the admin dialog
MaxListed == 2
\* assistant messages stored, and messages submitted by one page
MaxReplies == 1
MaxSubmits == 2

Procs == {"c1", "c2"}
\* identifiers are random UUIDs: a caller can name the ones handed out so far, or
\* one that was never handed out (NoSuchId)
NoSuchId == MaxUsers + MaxKeys + MaxChats + MaxMessages + 1
UserIds == (1..uuid.user) \cup {NoSuchId}
KeyIds == (1..uuid.key) \cup {NoSuchId}
ChatIds == (1..uuid.chat) \cup {NoSuchId}
AdminEmail == "admin@example.com"
Emails == {AdminEmail, "user@example.com"}
NewTitles == {"New Chat"}
Titles == NewTitles \cup {"Renamed"}
Contents == {"hello"}
DefaultSystemPrompt == "You are a helpful AI assistant"
SystemPrompts == {DefaultSystemPrompt, "Answer in French"}
\* apiResponse.data.choices[0].message.content
Completion == "completion"
Roles == {"user"}

\* ---------------------------------------------------------------- values
Null == [null |-> TRUE]
Undefined == "undefined"
\* obj[name] of a JavaScript object
Prop(obj, name) == IF name \in DOMAIN obj THEN obj[name] ELSE Undefined
NullText == "NULL"

DefaultApiUrl == "https://openrouter.ai/api/v1/chat/completions"
DefaultModel == "deepseek/deepseek-r1-distill-llama-70b:free"
DefaultMaxTokens == 4000
\* temperature is kept in tenths: 0.7 is 7
DefaultTemperature == 7

NoArgs ==
    [op |-> "none", chatId |-> 0, userId |-> 0, title |-> "", role |-> "", content |-> "",
     email |-> "", isAdmin |-> FALSE, apiKey |-> 0, settings |-> Null]
NoLocal == [user |-> Null, id |-> 0, key |-> 0]
RetBase(a) ==
    [args |-> a, ok |-> TRUE, error |-> "", chat |-> Null, message |-> Null, user |-> Null,
     settings |-> Null, key |-> 0, list |-> <<>>, keys |-> {}]
NoRet == RetBase(NoArgs)
Throw(a, e) == [RetBase(a) EXCEPT !.ok = FALSE, !.error = e]

\* rows[0] of a result whose rows are in no stated order: any of them
FirstRow(rows) == IF rows = {} THEN {Null} ELSE rows

\* the orders in which ORDER BY created_at may return a set of rows
Orderings(rows) ==
    {s \in [1..Cardinality(rows) -> rows] : \A i, j \in 1..Cardinality(rows) : i # j => s[i] # s[j]}
OrderByCreatedAsc(rows) ==
    {s \in Orderings(rows) : \A i, j \in 1..Len(s) : i < j => s[i].created_at <= s[j].created_at}
OrderByCreatedDesc(rows) ==
    {s \in Orderings(rows) : \A i, j \in 1..Len(s) : i < j => s[i].created_at >= s[j].created_at}

\* ---------------------------------------------------------------- row mapping
rowToChat(row) ==
    [id |-> row.id, title |-> row.title, created_at |-> row.created_at,
     last_message |-> row.last_message, user_id |-> row.user_id]
rowToMessage(row) ==
    [id |-> row.id, chat_id |-> row.chat_id, role |-> row.role, content |-> row.content,
     created_at |-> row.created_at]
rowToUser(row) ==
    [id |-> row.id, email |-> row.email, is_admin |-> (row.is_admin # 0),
     created_at |-> row.created_at]

\* ---------------------------------------------------------------- schema
\* FOREIGN KEY (user_id) REFERENCES users(id), checked when the connection enforces it
UserFkOk(userId) == foreign_keys => \E u \in users : u.id = userId
\* FOREIGN KEY (chat_id) REFERENCES chats(id)
ChatFkOk(chatId) == foreign_keys => \E c \in chats : c.id = chatId
\* ... ON DELETE CASCADE of messages.chat_id, for the chat rows a DELETE removes
CascadeMessages(gone) ==
    IF foreign_keys THEN {m \in messages : \A c \in gone : m.chat_id # c.id} ELSE messages

\* ---------------------------------------------------------------- statements on chats
\* (the ownership filter left out)
GetChatRows_anyUser(chatId, userId) == {c \in chats : c.id = chatId}
\* SELECT * FROM chats WHERE id = ? AND user_id = ?
GetChatRows(chatId, userId) == {c \in chats : c.id = chatId /\ c.user_id = userId}
\* (the WHERE clause left out)
GetChatsRows_all(userId) == chats
\* SELECT * FROM chats WHERE user_id = ?
GetChatsRows(userId) == {c \in chats : c.user_id = userId}
\* UPDATE chats SET title = ? WHERE id = ?
UpdateTitleRows(chatId) == {c \in chats : c.id = chatId}
\* UPDATE chats SET last_message = ? WHERE id = ? AND user_id = ?
UpdateLastMessageRows(chatId, userId) == {c \in chats : c.id = chatId /\ c.user_id = userId}
\* DELETE FROM chats WHERE id = ? AND user_id = ?
DeleteChatRows(chatId, userId) == {c \in chats : c.id = chatId /\ c.user_id = userId}
\* DELETE FROM messages WHERE chat_id = ?
DeleteMessagesRows(chatId) == {m \in messages : m.chat_id = chatId}
\* SELECT * FROM messages WHERE chat_id = ?
ChatMessagesRows(chatId) == {m \in messages : m.chat_id = chatId}

\* ---------------------------------------------------------------- frames
Finish(p, r) ==
    /\ pc' = [pc EXCEPT ![p] = "done"]
    /\ ret' = [ret EXCEPT ![p] = r]
    /\ local' = [local EXCEPT ![p] = NoLocal]
Goto(p, label, l) ==
    /\ pc' = [pc EXCEPT ![p] = label]
    /\ local' = [local EXCEPT ![p] = l]
    /\ UNCHANGED ret
Begin(p, a) == pc[p] = "idle" /\ args' = [args EXCEPT ![p] = a]
ChatArgs(op, chatId, userId) == [NoArgs EXCEPT !.op = op, !.chatId = chatId, !.userId = userId]

\* ---------------------------------------------------------------- createChat
createChat_call(p, title, userId) ==
    LET a == [NoArgs EXCEPT !.op = "createChat", !.title = title, !.userId = userId]
        chatId == uuid.chat + 1
    IN  /\ Begin(p, a)
        /\ chatId <= MaxChats
        /\ uuid' = [uuid EXCEPT !.chat = chatId]
        /\ IF UserFkOk(userId)
           THEN /\ chats' = chats \cup {[id |-> chatId, title |-> title, user_id |-> userId,
                                         created_at |-> now, last_message |-> NullText]}
                /\ chatOwner' = [chatOwner EXCEPT ![chatId] = userId]
                /\ Goto(p, "createChat_select", [NoLocal EXCEPT !.id = chatId])
           ELSE /\ Finish(p, Throw(a, "FOREIGN KEY constraint failed"))
                /\ UNCHANGED <<chats, chatOwner>>
        /\ UNCHANGED <<users, api_keys, api_settings, messages, foreign_keys, now>>

createChat_insert(p) ==
    /\ \E title \in NewTitles, userId \in UserIds : createChat_call(p, title, userId)
    /\ UNCHANGED app

createChat_select(p) ==
    /\ pc[p] = "createChat_select"
    /\ \E row \in FirstRow({c \in chats : c.id = local[p].id}) :
          IF row = Null
          THEN Finish(p, Throw(args[p], "TypeError"))
          ELSE Finish(p, [RetBase(args[p]) EXCEPT !.chat = rowToChat(row)])
    /\ UNCHANGED <<db, foreign_keys, now, uuid, args, chatOwner, app>>

\* ---------------------------------------------------------------- updateChatTitle
updateChatTitle(p) ==
    \E chatId \in ChatIds, title \in Titles \ NewTitles, userId \in UserIds :
        \* userId: the user the caller acts for; the method takes no such argument
        LET a == [ChatArgs("updateChatTitle", chatId, userId) EXCEPT !.title = title]
            hit == UpdateTitleRows(chatId)
        IN  /\ Begin(p, a)
            /\ chats' = (chats \ hit) \cup {[c EXCEPT !.title = title] : c \in hit}
            /\ Finish(p, RetBase(a))
            /\ UNCHANGED <<users, api_keys, api_settings, messages, foreign_keys, now, uuid, chatOwner, app>>

\* ---------------------------------------------------------------- getChats
getChats_call(p, userId) ==
    LET a == ChatArgs("getChats", 0, userId)
    IN  /\ Begin(p, a)
        /\ \E rows \in OrderByCreatedDesc(GetChatsRows(userId)) :
              Finish(p, [RetBase(a) EXCEPT !.list = [i \in 1..Len(rows) |-> rowToChat(rows[i])]])
        /\ UNCHANGED <<db, foreign_keys, now, uuid, chatOwner>>

getChats(p) ==
    /\ \E userId \in UserIds : getChats_call(p, userId)
    /\ UNCHANGED app

\* ---------------------------------------------------------------- addMessage
addMessage_call(p, chatId, role, content, userId) ==
    LET a == [ChatArgs("addMessage", chatId, userId) EXCEPT !.role = role, !.content = content]
    IN  /\ Begin(p, a)
        /\ \E row \in FirstRow(GetChatRows(chatId, userId)) :
              IF row = Null
              THEN Finish(p, Throw(a, "Chat not found or access denied"))
              ELSE Goto(p, "addMessage_insert", NoLocal)
        /\ UNCHANGED <<db, foreign_keys, now, uuid, chatOwner>>

addMessage_getChat(p) ==
    /\ \E chatId \in ChatIds, role \in Roles, content \in Contents, userId \in UserIds : addMessage_call(p, chatId, role, content, userId)
    /\ UNCHANGED app

addMessage_insert(p) ==
    LET a == args[p]
        \* the UUIDs of user messages are 1..MaxMessages, those of replies come after
        messageId == IF a.role = "user" THEN uuid.message + 1 ELSE MaxMessages + uuid.reply + 1
    IN  /\ pc[p] = "addMessage_insert"
        \* uuid.last: the id of the message row inserted last
        /\ IF a.role = "user"
           THEN /\ messageId <= MaxMessages
                /\ uuid' = [uuid EXCEPT !.message = messageId,
                                        !.last = IF ChatFkOk(a.chatId) THEN messageId ELSE @]
           ELSE /\ uuid.reply < MaxReplies
                /\ uuid' = [uuid EXCEPT !.reply = @ + 1,
                                        !.last = IF ChatFkOk(a.chatId) THEN messageId ELSE @]
        /\ IF ChatFkOk(a.chatId)
           THEN /\ messages' = messages \cup
                        {[id |-> messageId, chat_id |-> a.chatId, role |-> a.role,
                          content |-> a.content, created_at |-> now]}
                /\ Goto(p, "addMessage_update", [local[p] EXCEPT !.id = messageId])
           ELSE /\ Finish(p, Throw(a, "FOREIGN KEY constraint failed"))
                /\ UNCHANGED messages
        /\ UNCHANGED <<users, api_keys, api_settings, chats, foreign_keys, now, args, chatOwner, app>>

addMessage_update(p) ==
    LET a == args[p]
        hit == UpdateLastMessageRows(a.chatId, a.userId)
    IN  /\ pc[p] = "addMessage_update"
        /\ chats' = (chats \ hit) \cup {[c EXCEPT !.last_message = a.content] : c \in hit}
        /\ Goto(p, "addMessage_select", local[p])
        /\ UNCHANGED <<users, api_keys, api_settings, messages, foreign_keys, now, uuid, args, chatOwner, app>>

addMessage_select(p) ==
    /\ pc[p] = "addMessage_select"
    /\ \E row \in FirstRow({m \in messages : m.id = local[p].id}) :
          IF row = Null
          THEN Finish(p, Throw(args[p], "TypeError"))
          ELSE Finish(p, [RetBase(args[p]) EXCEPT !.message = rowToMessage(row)])
    /\ UNCHANGED <<db, foreign_keys, now, uuid, args, chatOwner, app>>

\* ---------------------------------------------------------------- getChatMessages
getChatMessages_call(p, chatId, userId) ==
    LET a == ChatArgs("getChatMessages", chatId, userId)
    IN  /\ Begin(p, a)
        /\ \E row \in FirstRow(GetChatRows(chatId, userId)) :
              IF row = Null
              THEN Finish(p, RetBase(a))
              ELSE Goto(p, "getChatMessages_select", NoLocal)
        /\ UNCHANGED <<db, foreign_keys, now, uuid, chatOwner>>

getChatMessages_getChat(p) ==
    /\ \E chatId \in ChatIds, userId \in UserIds : getChatMessages_call(p, chatId, userId)
    /\ UNCHANGED app

getChatMessages_select(p) ==
    /\ pc[p] = "getChatMessages_select"
    /\ \E rows \in OrderByCreatedAsc(ChatMessagesRows(args[p].chatId)) :
          Finish(p, [RetBase(args[p]) EXCEPT !.list = [i \in 1..Len(rows) |-> rowToMessage(rows[i])]])
    /\ UNCHANGED <<db, foreign_keys, now, uuid, args, chatOwner, app>>

\* ---------------------------------------------------------------- deleteChat
deleteChat_call(p, chatId, userId) ==
    LET a == ChatArgs("deleteChat", chatId, userId)
    IN  /\ Begin(p, a)
        /\ \E row \in FirstRow(GetChatRows(chatId, userId)) :
              IF row = Null
              THEN Finish(p, RetBase(a))
              ELSE Goto(p, "deleteChat_messages", NoLocal)
        /\ UNCHANGED <<db, foreign_keys, now, uuid, chatOwner>>

deleteChat_getChat(p) ==
    /\ \E chatId \in ChatIds, userId \in UserIds : deleteChat_call(p, chatId, userId)
    /\ UNCHANGED app

deleteChat_messages(p) ==
    /\ pc[p] = "deleteChat_messages"
    /\ messages' = messages \ DeleteMessagesRows(args[p].chatId)
    /\ Goto(p, "deleteChat_chat", local[p])
    /\ UNCHANGED <<users, api_keys, api_settings, chats, foreign_keys, now, uuid, args, chatOwner, app>>

deleteChat_chat(p) ==
    LET gone == DeleteChatRows(args[p].chatId, args[p].userId)
    IN  /\ pc[p] = "deleteChat_chat"
        /\ chats' = chats \ gone
        /\ messages' = CascadeMessages(gone)
        /\ Finish(p, RetBase(args[p]))
        /\ UNCHANGED <<users, api_keys, api_settings, foreign_keys, now, uuid, args, chatOwner, app>>

\* ---------------------------------------------------------------- statements on users, keys, settings
\* SELECT * FROM users WHERE email = ?
UserByEmailRows(email) == {u \in users : u.email = email}
\* (the WHERE clause left out)
UserByIdRows_any(userId) == users
\* SELECT id FROM users WHERE id = ?
UserByIdRows(userId) == {u \in users : u.id = userId}
\* SELECT key FROM api_keys WHERE user_id = ?
KeyOfUserRows(userId) == {k \in api_keys : k.user_id = userId}
\* DELETE FROM api_keys WHERE user_id = ?
DeleteKeysOfUserRows(userId) == {k \in api_keys : k.user_id = userId}
\* DELETE FROM api_keys WHERE key = ?
RevokeRows(apiKey) == {k \in api_keys : k.key = apiKey}
\* (the WHERE clause left out)
ValidateRows_anyKey(apiKey) == {u \in users : \E ak \in api_keys : ak.user_id = u.id}
\* SELECT DISTINCT u.* FROM users u INNER JOIN api_keys ak ON ak.user_id = u.id WHERE ak.key = ?
ValidateRows(apiKey) == {u \in users : \E ak \in api_keys : ak.user_id = u.id /\ ak.key = apiKey}
\* SELECT * FROM api_settings WHERE user_id = ?
SettingsOfUserRows(userId) == {r \in api_settings : r.user_id = userId}

\* (UNIQUE on email left out)
UsersInsertOk_noEmailUnique(userId, email) == \A u \in users : u.id # userId
\* users: email TEXT UNIQUE NOT NULL, id TEXT PRIMARY KEY
UsersInsertOk(userId, email) == \A u \in users : u.id # userId /\ u.email # email
\* (UNIQUE(user_id) left out)
ApiKeysInsertOk_noUserUnique(keyId, userId, apiKey) ==
    /\ \A k \in api_keys : k.id # keyId /\ k.key # apiKey
    /\ UserFkOk(userId)
\* api_keys: id PRIMARY KEY, key TEXT UNIQUE, UNIQUE(user_id), FOREIGN KEY (user_id)
ApiKeysInsertOk(keyId, userId, apiKey) ==
    /\ \A k \in api_keys : k.id # keyId /\ k.key # apiKey /\ k.user_id # userId
    /\ UserFkOk(userId)
\* (the uniqueness constraints left out)
ApiSettingsInsertOk_noUnique(id, userId) == UserFkOk(userId)
\* api_settings: id PRIMARY KEY, UNIQUE(user_id) and idx_api_settings_user_id, FOREIGN KEY (user_id)
ApiSettingsInsertOk(id, userId) ==
    /\ \A r \in api_settings : r.id # id /\ r.user_id # userId
    /\ UserFkOk(userId)
\* the columns of api_settings once initializeTables has run
ApiSettingsColumns ==
    {"id", "user_id", "openrouter_key", "api_url", "model", "max_tokens", "temperature",
     "created_at", "updated_at"}
\* the columns the INSERT of resetAdminApiKey names
ResetInsertColumns == {"id", "user_id", "api_key", "api_url", "model", "max_tokens", "temperature"}

\* (max_tokens not defaulted)
DefaultSettingsRow_noDefault(userId) ==
    [id |-> userId, user_id |-> userId, openrouter_key |-> "", api_url |-> DefaultApiUrl,
     model |-> DefaultModel, max_tokens |-> 0, temperature |-> DefaultTemperature,
     created_at |-> now, updated_at |-> now]
DefaultSettingsRow(userId) ==
    [id |-> userId, user_id |-> userId, openrouter_key |-> "", api_url |-> DefaultApiUrl,
     model |-> DefaultModel, max_tokens |-> DefaultMaxTokens, temperature |-> DefaultTemperature,
     created_at |-> now, updated_at |-> now]
rowToApiSettings(row) ==
    [id |-> row.id, api_key |-> row.openrouter_key, api_url |-> row.api_url, model |-> row.model,
     max_tokens |-> row.max_tokens, temperature |-> row.temperature,
     created_at |-> row.created_at, updated_at |-> row.updated_at]
\* what a settings dialog hands to updateApiSettings
SettingsInputs ==
    {[api_key |-> "sk-or-1", api_url |-> DefaultApiUrl, model |-> DefaultModel,
      max_tokens |-> 100, temperature |-> 0]}

\* INSERT INTO api_keys (id, user_id, key): one UUID for the row id, one for the key
NewKeyRow(userId) ==
    [id |-> uuid.key + 1, user_id |-> userId, key |-> uuid.key + 1, created_at |-> now]

\* ---------------------------------------------------------------- createUser
\* the bootstrap calls createUser('admin@example.com', true); the admin dialog calls
\* createUser(email) with any email, is_admin defaulting to false
CreateUserInputs == {<<AdminEmail, TRUE>>} \cup {<<e, FALSE>> : e \in Emails}

createUser_call(p, email, isAdmin) ==
    LET a == [NoArgs EXCEPT !.op = "createUser", !.email = email, !.isAdmin = isAdmin]
    IN  /\ Begin(p, a)
        /\ \E row \in FirstRow(UserByEmailRows(email)) :
              IF row = Null
              THEN Goto(p, "createUser_insertUser", NoLocal)
              ELSE Goto(p, "createUser_selectKey", [NoLocal EXCEPT !.user = rowToUser(row)])
        /\ UNCHANGED <<db, foreign_keys, now, uuid, chatOwner>>

createUser_getUserByEmail(p) ==
    /\ \E in \in CreateUserInputs : createUser_call(p, in[1], in[2])
    /\ UNCHANGED app

createUser_selectKey(p) ==
    /\ pc[p] = "createUser_selectKey"
    /\ \E row \in FirstRow(KeyOfUserRows(local[p].user.id)) :
          IF row = Null
          THEN Goto(p, "createUser_insertKey", local[p])
          ELSE Finish(p, [RetBase(args[p]) EXCEPT !.user = local[p].user, !.key = row.key])
    /\ UNCHANGED <<db, foreign_keys, now, uuid, args, chatOwner, app>>

\* the existing user has no key: INSERT INTO api_keys
createUser_insertKey(p) ==
    LET row == NewKeyRow(local[p].user.id)
    IN  /\ pc[p] = "createUser_insertKey"
        /\ row.key <= MaxKeys
        /\ uuid' = [uuid EXCEPT !.key = row.key]
        /\ IF ApiKeysInsertOk(row.id, row.user_id, row.key)
           THEN /\ api_keys' = api_keys \cup {row}
                /\ Goto(p, "createUser_ensureSettings", [local[p] EXCEPT !.key = row.key])
           ELSE /\ Finish(p, Throw(args[p], "UNIQUE constraint failed"))
                /\ UNCHANGED api_keys
        /\ UNCHANGED <<users, api_settings, chats, messages, foreign_keys, now, args, chatOwner, app>>

\* INSERT INTO api_settings (id, user_id) ... ON CONFLICT(user_id) DO NOTHING
createUser_ensureSettings(p) ==
    LET userId == local[p].user.id
    IN  /\ pc[p] = "createUser_ensureSettings"
        /\ IF SettingsOfUserRows(userId) # {}
           THEN /\ UNCHANGED api_settings
                /\ Finish(p, [RetBase(args[p]) EXCEPT !.user = local[p].user, !.key = local[p].key])
           ELSE IF ApiSettingsInsertOk(userId, userId)
           THEN /\ api_settings' = api_settings \cup {DefaultSettingsRow(userId)}
                /\ Finish(p, [RetBase(args[p]) EXCEPT !.user = local[p].user, !.key = local[p].key])
           ELSE /\ UNCHANGED api_settings
                /\ Finish(p, Throw(args[p], "constraint failed"))
        /\ UNCHANGED <<users, api_keys, chats, messages, foreign_keys, now, uuid, args, chatOwner, app>>

\* 1. INSERT INTO users (id, email, is_admin)
createUser_insertUser(p) ==
    LET userId == uuid.user + 1
    IN  /\ pc[p] = "createUser_insertUser"
        /\ userId <= MaxUsers
        /\ uuid' = [uuid EXCEPT !.user = userId]
        /\ IF UsersInsertOk(userId, args[p].email)
           THEN /\ users' = users \cup {[id |-> userId, email |-> args[p].email,
                                         is_admin |-> IF args[p].isAdmin THEN 1 ELSE 0,
                                         created_at |-> now]}
                /\ Goto(p, "createUser_insertSettings", [NoLocal EXCEPT !.id = userId])
           ELSE /\ Finish(p, Throw(args[p], "UNIQUE constraint failed"))
                /\ UNCHANGED users
        /\ UNCHANGED <<api_keys, api_settings, chats, messages, foreign_keys, now, args, chatOwner, app>>

\* 2. INSERT INTO api_settings (id, user_id)
createUser_insertSettings(p) ==
    LET userId == local[p].id
    IN  /\ pc[p] = "createUser_insertSettings"
        /\ IF ApiSettingsInsertOk(userId, userId)
           THEN /\ api_settings' = api_settings \cup {DefaultSettingsRow(userId)}
                /\ Goto(p, "createUser_insertNewKey", local[p])
           ELSE /\ UNCHANGED api_settings
                /\ Finish(p, Throw(args[p], "UNIQUE constraint failed"))
        /\ UNCHANGED <<users, api_keys, chats, messages, foreign_keys, now, uuid, args, chatOwner, app>>

\* 3. INSERT INTO api_keys (id, user_id, key)
createUser_insertNewKey(p) ==
    LET row == NewKeyRow(local[p].id)
    IN  /\ pc[p] = "createUser_insertNewKey"
        /\ row.key <= MaxKeys
        /\ uuid' = [uuid EXCEPT !.key = row.key]
        /\ IF ApiKeysInsertOk(row.id, row.user_id, row.key)
           THEN /\ api_keys' = api_keys \cup {row}
                /\ Goto(p, "createUser_selectUser", [local[p] EXCEPT !.key = row.key])
           ELSE /\ Finish(p, Throw(args[p], "UNIQUE constraint failed"))
                /\ UNCHANGED api_keys
        /\ UNCHANGED <<users, api_settings, chats, messages, foreign_keys, now, args, chatOwner, app>>

\* 4. SELECT * FROM users WHERE id = ?
createUser_selectUser(p) ==
    /\ pc[p] = "createUser_selectUser"
    /\ \E row \in FirstRow(UserByIdRows(local[p].id)) :
          IF row = Null
          THEN Finish(p, Throw(args[p], "TypeError"))
          ELSE Finish(p, [RetBase(args[p]) EXCEPT !.user = rowToUser(row), !.key = local[p].key])
    /\ UNCHANGED <<db, foreign_keys, now, uuid, args, chatOwner, app>>

\* ---------------------------------------------------------------- generateApiKey
\* generateApiKey runs on its own or inside resetAdminApiKey, whose try/catch turns
\* every throw into `return null` (key 0)
Raise(p, e) ==
    IF args[p].op = "resetAdminApiKey" THEN Finish(p, RetBase(args[p])) ELSE Finish(p, Throw(args[p], e))

generateApiKey_call(p, userId) ==
    LET a == [NoArgs EXCEPT !.op = "generateApiKey", !.userId = userId]
    IN  /\ Begin(p, a)
        /\ IF UserByIdRows(userId) = {}
           THEN Finish(p, Throw(a, "User not found"))
           ELSE Goto(p, "generateApiKey_delete", [NoLocal EXCEPT !.id = userId])
        /\ UNCHANGED <<db, foreign_keys, now, uuid, chatOwner>>

generateApiKey_selectUser(p) ==
    /\ \E userId \in UserIds : generateApiKey_call(p, userId)
    /\ UNCHANGED app

generateApiKey_delete(p) ==
    /\ pc[p] = "generateApiKey_delete"
    /\ api_keys' = api_keys \ DeleteKeysOfUserRows(local[p].id)
    /\ Goto(p, "generateApiKey_insert", local[p])
    /\ UNCHANGED <<users, api_settings, chats, messages, foreign_keys, now, uuid, args, chatOwner, app>>

generateApiKey_insert(p) ==
    LET row == NewKeyRow(local[p].id)
    IN  /\ pc[p] = "generateApiKey_insert"
        /\ row.key <= MaxKeys
        /\ uuid' = [uuid EXCEPT !.key = row.key]
        /\ IF ApiKeysInsertOk(row.id, row.user_id, row.key)
           THEN /\ api_keys' = api_keys \cup {row}
                /\ IF args[p].op = "resetAdminApiKey"
                   THEN Goto(p, "resetAdminApiKey_insertSettings", [local[p] EXCEPT !.key = row.key])
                   ELSE Finish(p, [RetBase(args[p]) EXCEPT !.key = row.key])
           ELSE /\ Raise(p, "UNIQUE constraint failed")
                /\ UNCHANGED api_keys
        /\ UNCHANGED <<users, api_settings, chats, messages, foreign_keys, now, args, chatOwner, app>>

\* ---------------------------------------------------------------- validateApiKey, revokeApiKey
validateApiKey_call(p, apiKey) ==
    LET a == [NoArgs EXCEPT !.op = "validateApiKey", !.apiKey = apiKey]
    IN  /\ Begin(p, a)
        /\ \E row \in FirstRow(ValidateRows(apiKey)) :
              Finish(p, [RetBase(a) EXCEPT !.user = IF row = Null THEN Null ELSE rowToUser(row)])
        /\ UNCHANGED <<db, foreign_keys, now, uuid, chatOwner>>

validateApiKey(p) ==
    /\ \E apiKey \in KeyIds : validateApiKey_call(p, apiKey)
    /\ UNCHANGED app

revokeApiKey_call(p, apiKey) ==
    LET a == [NoArgs EXCEPT !.op = "revokeApiKey", !.apiKey = apiKey]
    IN  /\ Begin(p, a)
        /\ api_keys' = api_keys \ RevokeRows(apiKey)
        /\ Finish(p, RetBase(a))
        /\ UNCHANGED <<users, api_settings, chats, messages, foreign_keys, now, uuid, chatOwner>>

revokeApiKey(p) ==
    /\ \E apiKey \in KeyIds : revokeApiKey_call(p, apiKey)
    /\ UNCHANGED app

\* ---------------------------------------------------------------- listUsers, getAllApiKeys, getApiSettings
\* SELECT * FROM users ORDER BY created_at DESC
listUsers_call(p) ==
    LET a == [NoArgs EXCEPT !.op = "listUsers"]
    IN  /\ Begin(p, a)
        /\ \E rows \in OrderByCreatedDesc(users) :
              Finish(p, [RetBase(a) EXCEPT !.list = [i \in 1..Len(rows) |-> rowToUser(rows[i])]])
        /\ UNCHANGED <<db, foreign_keys, now, uuid, chatOwner>>

\* rows.reduce((acc, row) => { acc[row.user_id] = row.key; return acc }, {}): the
\* record as the set of its entries, a later row replacing an earlier one's entry
RECURSIVE reduceKeys(_)
reduceKeys(rows) ==
    IF rows = <<>> THEN {}
    ELSE LET row == rows[Len(rows)]
             acc == reduceKeys(SubSeq(rows, 1, Len(rows) - 1))
         IN  {e \in acc : e.user_id # row.user_id} \cup {[user_id |-> row.user_id, key |-> row.key]}

\* SELECT user_id, key FROM api_keys
getAllApiKeys_call(p) ==
    LET a == [NoArgs EXCEPT !.op = "getAllApiKeys"]
    IN  /\ Begin(p, a)
        /\ \E rows \in Orderings(api_keys) :
              Finish(p, [RetBase(a) EXCEPT !.keys = reduceKeys(rows)])
        /\ UNCHANGED <<db, foreign_keys, now, uuid, chatOwner>>

\* SELECT * FROM api_settings WHERE user_id = ? LIMIT 1
getApiSettings_call(p, userId) ==
    LET a == [NoArgs EXCEPT !.op = "getApiSettings", !.userId = userId]
    IN  /\ Begin(p, a)
        /\ \E row \in FirstRow(SettingsOfUserRows(userId)) :
              Finish(p, [RetBase(a) EXCEPT
                            !.settings = IF row = Null THEN Null ELSE rowToApiSettings(row)])
        /\ UNCHANGED <<db, foreign_keys, now, uuid, chatOwner>>

\* ---------------------------------------------------------------- updateApiSettings
updateApiSettings_call(p, userId, settings) ==
    LET a == [NoArgs EXCEPT !.op = "updateApiSettings", !.userId = userId, !.settings = settings]
    IN  /\ Begin(p, a)
        /\ IF SettingsOfUserRows(userId) = {}
           THEN Goto(p, "updateApiSettings_insert", NoLocal)
           ELSE Goto(p, "updateApiSettings_update", NoLocal)
        /\ UNCHANGED <<db, foreign_keys, now, uuid, chatOwner>>

updateApiSettings_select(p) ==
    /\ \E userId \in UserIds, settings \in SettingsInputs : updateApiSettings_call(p, userId, settings)
    /\ UNCHANGED app

SettingsRow(userId, settings, created) ==
    [id |-> userId, user_id |-> userId, openrouter_key |-> settings.api_key,
     api_url |-> settings.api_url, model |-> settings.model, max_tokens |-> settings.max_tokens,
     temperature |-> settings.temperature, created_at |-> created, updated_at |-> now]

updateApiSettings_insert(p) ==
    LET a == args[p]
        row == SettingsRow(a.userId, a.settings, now)
    IN  /\ pc[p] = "updateApiSettings_insert"
        /\ IF ApiSettingsInsertOk(a.userId, a.userId)
           THEN /\ api_settings' = api_settings \cup {row}
                /\ Finish(p, [RetBase(a) EXCEPT !.settings = rowToApiSettings(row)])
           ELSE /\ UNCHANGED api_settings
                /\ Finish(p, Throw(a, "constraint failed"))
        /\ UNCHANGED <<users, api_keys, chats, messages, foreign_keys, now, uuid, args, chatOwner, app>>

updateApiSettings_update(p) ==
    LET a == args[p]
        hit == SettingsOfUserRows(a.userId)
        new == {[id |-> r.id, row |-> SettingsRow(a.userId, a.settings, r.created_at)] : r \in hit}
    IN  /\ pc[p] = "updateApiSettings_update"
        /\ api_settings' = (api_settings \ hit) \cup {[n.row EXCEPT !.id = n.id] : n \in new}
        /\ \E row \in FirstRow({[n.row EXCEPT !.id = n.id] : n \in new}) :
              IF row = Null
              THEN Finish(p, Throw(a, "TypeError"))
              ELSE Finish(p, [RetBase(a) EXCEPT !.settings = rowToApiSettings(row)])
        /\ UNCHANGED <<users, api_keys, chats, messages, foreign_keys, now, uuid, args, chatOwner, app>>

\* ---------------------------------------------------------------- resetAdminApiKey
resetAdminApiKey_getUser(p) ==
    LET a == [NoArgs EXCEPT !.op = "resetAdminApiKey"]
    IN  /\ Begin(p, a)
        /\ \E row \in FirstRow(UserByEmailRows(AdminEmail)) :
              IF row = Null \/ ~rowToUser(row).is_admin
              THEN Finish(p, RetBase(a))
              ELSE Goto(p, "resetAdminApiKey_selectUser", [NoLocal EXCEPT !.user = rowToUser(row)])
        /\ UNCHANGED <<db, foreign_keys, now, uuid, chatOwner, app>>

\* generateApiKey(adminUser.id): SELECT id FROM users WHERE id = ?
resetAdminApiKey_selectUser(p) ==
    /\ pc[p] = "resetAdminApiKey_selectUser"
    /\ IF UserByIdRows(local[p].user.id) = {}
       THEN Raise(p, "User not found")
       ELSE Goto(p, "generateApiKey_delete", [local[p] EXCEPT !.id = local[p].user.id])
    /\ UNCHANGED <<db, foreign_keys, now, uuid, args, chatOwner, app>>

\* INSERT INTO api_settings (id, user_id, api_key, ...) ... ON CONFLICT(user_id) DO NOTHING
resetAdminApiKey_insertSettings(p) ==
    LET userId == local[p].user.id
    IN  /\ pc[p] = "resetAdminApiKey_insertSettings"
        /\ IF ~(ResetInsertColumns \subseteq ApiSettingsColumns)
           THEN /\ UNCHANGED api_settings
                /\ Raise(p, "table api_settings has no column named api_key")
           ELSE IF SettingsOfUserRows(userId) # {}
           THEN /\ UNCHANGED api_settings
                /\ Finish(p, [RetBase(args[p]) EXCEPT !.key = local[p].key])
           ELSE IF ApiSettingsInsertOk(userId, userId)
           THEN /\ api_settings' = api_settings \cup {DefaultSettingsRow(userId)}
                /\ Finish(p, [RetBase(args[p]) EXCEPT !.key = local[p].key])
           ELSE /\ UNCHANGED api_settings
                /\ Raise(p, "constraint failed")
        /\ UNCHANGED <<users, api_keys, chats, messages, foreign_keys, now, uuid, args, chatOwner, app>>

\* ---------------------------------------------------------------- environment
\* the caller receives the settled promise
Resume(p) ==
    /\ pc[p] = "done"
    /\ pc' = [pc EXCEPT ![p] = "idle"]
    /\ ret' = [ret EXCEPT ![p] = NoRet]
    /\ args' = [args EXCEPT ![p] = NoArgs]
    /\ UNCHANGED <<db, foreign_keys, now, uuid, local, chatOwner>>

Return(p) == Resume(p) /\ UNCHANGED app

\* ---------------------------------------------------------------- specifications
InitProcs ==
    /\ pc = [p \in Procs |-> "idle"]
    /\ args = [p \in Procs |-> NoArgs]
    /\ local = [p \in Procs |-> NoLocal]
    /\ ret = [p \in Procs |-> NoRet]

\* connection settings (URL and token) the user can enter; 0 stands for a configuration
\* whose URL or token is missing
Configs == {1, 2}
\* one run of the database-initialization effect
NoRun == [task |-> "idle", superseded |-> FALSE, initialized |-> FALSE]

\* the useState initial values of App and AdminDialog; no App function is running
NoHttp == [state |-> "none", body |-> <<>>, relayed |-> FALSE]
NoClosure == [chatId |-> 0, userId |-> 0, messageText |-> "", tempMessageId |-> 0]
NoApp ==
    [task |-> "none", caller |-> Null, target |-> 0, effects |-> {},
     currentUser |-> Null, users |-> <<>>, adminDialogOpen |-> FALSE, userApiKeys |-> {},
     alert |-> 0,
     apiSettings |-> Null, chats |-> <<>>, selectedChatId |-> 0, messages |-> <<>>,
     newSystemPrompt |-> DefaultSystemPrompt, submits |-> 0, closure |-> NoClosure,
     savedUserMessage |-> Null, http |-> NoHttp, userApiKey |-> 0, fetchedChats |-> <<>>,
     tempSettings |-> Null, newSettings |-> Null,
     loginForm |-> [isLoading |-> FALSE, error |-> ""], localStorage |-> 0,
     followEffects |-> FALSE, currentMessageId |-> 0,
     chatForm |-> [message |-> <<>>, isSubmitting |-> FALSE],
     config |-> 0, storedConfig |-> 0, db |-> Null, isDbReady |-> FALSE,
     dbConnectionError |-> "", run |-> [c \in Configs |-> NoRun]]

\* the database after the admin bootstrap and one createUser by the admin
InitChat ==
    /\ now = 0
    /\ users = {[id |-> 1, email |-> AdminEmail, is_admin |-> 1, created_at |-> 0],
                [id |-> 2, email |-> "user@example.com", is_admin |-> 0, created_at |-> 0]}
    /\ api_keys = {[id |-> 1, user_id |-> 1, key |-> 1, created_at |-> 0],
                   [id |-> 2, user_id |-> 2, key |-> 2, created_at |-> 0]}
    /\ api_settings = {DefaultSettingsRow(1), DefaultSettingsRow(2)}
    /\ chats = {}
    /\ messages = {}
    /\ foreign_keys \in BOOLEAN
    /\ uuid = [user |-> 2, key |-> 2, chat |-> 0, message |-> 0, reply |-> 0, last |-> 0]
    /\ chatOwner = [c \in 1..MaxChats |-> 0]
    /\ InitProcs
    /\ app = [p \in Procs |-> NoApp]

NextChat ==
    \/ \E p \in Procs : createChat_insert(p)
    \/ \E p \in Procs : createChat_select(p)
    \/ \E p \in Procs : updateChatTitle(p)
    \/ \E p \in Procs : getChats(p)
    \/ \E p \in Procs : addMessage_getChat(p)
    \/ \E p \in Procs : addMessage_insert(p)
    \/ \E p \in Procs : addMessage_update(p)
    \/ \E p \in Procs : addMessage_select(p)
    \/ \E p \in Procs : getChatMessages_getChat(p)
    \/ \E p \in Procs : getChatMessages_select(p)
    \/ \E p \in Procs : deleteChat_getChat(p)
    \/ \E p \in Procs : deleteChat_messages(p)
    \/ \E p \in Procs : deleteChat_chat(p)
    \/ \E p \in Procs : Return(p)

SpecChat == InitChat /\ [][NextChat]_vars

\* the database right after initializeTables created the tables
InitKeys ==
    /\ users = {}
    /\ api_keys = {}
    /\ api_settings = {}
    /\ chats = {}
    /\ messages = {}
    /\ foreign_keys \in BOOLEAN
    /\ now = 0
    /\ uuid = [user |-> 0, key |-> 0, chat |-> 0, message |-> 0, reply |-> 0, last |-> 0]
    /\ chatOwner = [c \in 1..MaxChats |-> 0]
    /\ InitProcs
    /\ app = [p \in Procs |-> NoApp]

NextKeys ==
    \/ \E p \in Procs : createUser_getUserByEmail(p)
    \/ \E p \in Procs : createUser_selectKey(p)
    \/ \E p \in Procs : createUser_insertKey(p)
    \/ \E p \in Procs : createUser_ensureSettings(p)
    \/ \E p \in Procs : createUser_insertUser(p)
    \/ \E p \in Procs : createUser_insertSettings(p)
    \/ \E p \in Procs : createUser_insertNewKey(p)
    \/ \E p \in Procs : createUser_selectUser(p)
    \/ \E p \in Procs : generateApiKey_selectUser(p)
    \/ \E p \in Procs : generateApiKey_delete(p)
    \/ \E p \in Procs : generateApiKey_insert(p)
    \/ \E p \in Procs : validateApiKey(p)
    \/ \E p \in Procs : revokeApiKey(p)
    \/ \E p \in Procs : resetAdminApiKey_getUser(p)
    \/ \E p \in Procs : resetAdminApiKey_selectUser(p)
    \/ \E p \in Procs : resetAdminApiKey_insertSettings(p)
    \/ \E p \in Procs : Return(p)

SpecKeys == InitKeys /\ [][NextKeys]_vars

NextSettings ==
    \/ \E p \in Procs : createUser_getUserByEmail(p)
    \/ \E p \in Procs : createUser_selectKey(p)
    \/ \E p \in Procs : createUser_insertKey(p)
    \/ \E p \in Procs : createUser_ensureSettings(p)
    \/ \E p \in Procs : createUser_insertUser(p)
    \/ \E p \in Procs : createUser_insertSettings(p)
    \/ \E p \in Procs : createUser_insertNewKey(p)
    \/ \E p \in Procs : createUser_selectUser(p)
    \/ \E p \in Procs : updateApiSettings_select(p)
    \/ \E p \in Procs : updateApiSettings_insert(p)
    \/ \E p \in Procs : updateApiSettings_update(p)
    \/ \E p \in Procs : resetAdminApiKey_getUser(p)
    \/ \E p \in Procs : resetAdminApiKey_selectUser(p)
    \/ \E p \in Procs : generateApiKey_delete(p)
    \/ \E p \in Procs : generateApiKey_insert(p)
    \/ \E p \in Procs : resetAdminApiKey_insertSettings(p)
    \/ \E p \in Procs : Return(p)

\* the database after initializeTables found api_settings with its old structure
\* (a column api_key) and dropped and recreated it: the admin is left without a
\* settings row
InitMigrated ==
    /\ now = 0
    /\ users = {[id |-> 1, email |-> AdminEmail, is_admin |-> 1, created_at |-> 0]}
    /\ api_keys = {[id |-> 1, user_id |-> 1, key |-> 1, created_at |-> 0]}
    /\ api_settings = {}
    /\ chats = {}
    /\ messages = {}
    /\ foreign_keys \in BOOLEAN
    /\ uuid = [user |-> 1, key |-> 1, chat |-> 0, message |-> 0, reply |-> 0, last |-> 0]
    /\ chatOwner = [c \in 1..MaxChats |-> 0]
    /\ InitProcs
    /\ app = [p \in Procs |-> NoApp]

InitSettings == InitKeys \/ InitMigrated

SpecSettings == InitSettings /\ [][NextSettings]_vars

\* ---------------------------------------------------------------- App: frames
store == <<db, foreign_keys, now, uuid, chatOwner>>
call == <<pc, args, local, ret>>
\* setState calls of client p
SetApp(p, r) == app' = [app EXCEPT ![p] = r]
\* an event handler that makes no data-access call
UiOnly(p, r) == SetApp(p, r) /\ UNCHANGED <<store, call>>
\* React runs the effects of a render before it handles the next event
NoEffectDue(p) == app[p].effects = {}

\* (the is_admin test left out)
IsAdminSession_any(p) == TRUE
\* currentUser?.is_admin
IsAdminSession(p) == app[p].currentUser # Null /\ app[p].currentUser.is_admin

\* ---------------------------------------------------------------- App: database initialization
\* a page load: the initial state, the database-initialization effect about to run
BootApp == [NoApp EXCEPT !.task = "initializeDb"]
InitializeDbTasks ==
    {"initializeDb", "initializeDb_listUsers", "initializeDb_users", "initializeDb_createUser",
     "initializeDb_created"}

\* await dbInstance.initializeTables(): CREATE TABLE where missing; no row changes
initializeDb_initializeTables(p) ==
    /\ app[p].task = "initializeDb"
    /\ UiOnly(p, [app[p] EXCEPT !.task = "initializeDb_listUsers"])

\* const users = await dbInstance.listUsers()
initializeDb_listUsers(p) ==
    /\ app[p].task = "initializeDb_listUsers"
    /\ listUsers_call(p)
    /\ SetApp(p, [app[p] EXCEPT !.task = "initializeDb_users"])

\* if (users.length === 0) ... else setIsDbReady(true)
initializeDb_users(p) ==
    /\ app[p].task = "initializeDb_users"
    /\ Resume(p)
    /\ SetApp(p, [app[p] EXCEPT !.task = IF ~ret[p].ok THEN "failed"
                                         ELSE IF Len(ret[p].list) = 0 THEN "initializeDb_createUser"
                                         ELSE "none"])

\* const { apiKey } = await dbInstance.createUser('admin@example.com', true)
initializeDb_createUser(p) ==
    /\ app[p].task = "initializeDb_createUser"
    /\ createUser_call(p, AdminEmail, TRUE)
    /\ SetApp(p, [app[p] EXCEPT !.task = "initializeDb_created"])

\* alert(`Admin account created! ... API Key: ${apiKey} ...`)
initializeDb_alert(p) ==
    /\ app[p].task = "initializeDb_created"
    /\ ret[p].ok
    /\ Resume(p)
    /\ SetApp(p, [app[p] EXCEPT !.task = "reload", !.alert = ret[p].key])

\* catch: setDbConnectionError(...); setDb(null); setIsDbReady(true)
initializeDb_catch(p) ==
    /\ app[p].task = "initializeDb_created"
    /\ ~ret[p].ok
    /\ Resume(p)
    /\ SetApp(p, [app[p] EXCEPT !.task = "failed"])

\* window.location.reload() after the alert, or the user reloading the page
reload(p) ==
    /\ \/ app[p].task \in {"reload", "failed"}
       \/ app[p].task = "none" /\ pc[p] = "idle" /\ NoEffectDue(p)
    /\ UiOnly(p, BootApp)

\* ---------------------------------------------------------------- App: login, logout
\* LoginForm is rendered if (!currentUser && !config.userApiKey && db); its
\* handleSubmit: if (!apiKey || isLoading) return; setIsLoading(true); setError('');
\* await onLogin(apiKey), which is handleLogin: await db.validateApiKey(apiKey)
handleLogin(p) ==
    /\ app[p].task = "none" /\ NoEffectDue(p)
    /\ app[p].currentUser = Null /\ app[p].userApiKey = 0
    /\ ~app[p].loginForm.isLoading
    /\ \E apiKey \in KeyIds : validateApiKey_call(p, apiKey)
    /\ SetApp(p, [app[p] EXCEPT !.task = "handleLogin",
                                !.loginForm = [isLoading |-> TRUE, error |-> ""]])

\* the effects whose dependency list names currentUser and that do something for the
\* state of the page: the messages effect returns at once without a selected chat,
\* the settings-init effect without apiSettings
CurrentUserEffects(r) ==
    {"loadApiSettings", "loadChats"}
        \cup (IF r.selectedChatId # 0 THEN {"loadMessages"} ELSE {})
        \cup (IF r.apiSettings # Null THEN {"settingsInit"} ELSE {})

\* (isLoading left set)
LoginFormCatch_stillLoading(message) == [isLoading |-> TRUE, error |-> message]
\* LoginForm catch: setError(error.message); setIsLoading(false)
LoginFormCatch(message) == [isLoading |-> FALSE, error |-> message]

\* the effects that run after the render that follows a successful login: the one on
\* config.userApiKey and those on currentUser (a specification that leaves the
\* data-loading effects aside has followEffects = FALSE)
LoginEffects(r) ==
    IF r.followEffects THEN {"validateUser"} \cup CurrentUserEffects(r) ELSE {}

\* if (!user) throw new Error('Invalid API key...'); localStorage.setItem('apiConfig',
\* { ...config, userApiKey: apiKey }); setConfig(...); setCurrentUser(user);
\* LoginForm is unmounted by a successful login
handleLogin_done(p) ==
    /\ app[p].task = "handleLogin"
    /\ Resume(p)
    /\ IF ret[p].ok /\ ret[p].user # Null
       THEN SetApp(p, [app[p] EXCEPT !.task = "none", !.currentUser = ret[p].user,
                                    !.userApiKey = ret[p].args.apiKey,
                                    !.localStorage = ret[p].args.apiKey,
                                    !.loginForm = NoApp.loginForm,
                                    !.effects = @ \cup LoginEffects(app[p])])
       ELSE SetApp(p, [app[p] EXCEPT !.task = "none",
                                    !.loginForm = LoginFormCatch("Invalid API key")])

\* setConfig(prev => ({ ...prev, userApiKey: undefined })); setCurrentUser(null);
\* localStorage.removeItem('apiConfig'); the effects of that render make no call: the
\* save-config effect stores the config without a key, the load-chats effect does
\* setChats([]). The Logout button lies under the modal admin dialog while that is open;
\* it can be pressed while the calls of the effects are in flight (the effects are
\* followed one at a time, so one that is still due stands for a call in flight)
handleLogout(p) ==
    /\ app[p].currentUser # Null /\ ~app[p].adminDialogOpen
    /\ app[p].task \notin InitializeDbTasks
    /\ UiOnly(p, [app[p] EXCEPT !.currentUser = Null, !.userApiKey = 0, !.localStorage = 0,
                                !.chats = <<>>])

\* ---------------------------------------------------------------- App and AdminDialog: user management
\* the Manage Users buttons are rendered for currentUser?.is_admin only; opening the
\* dialog runs the loadUsers effect of App and the fetchApiKeys effect of AdminDialog
openAdminDialog(p) ==
    /\ IsAdminSession(p) /\ ~app[p].adminDialogOpen /\ NoEffectDue(p)
    /\ UiOnly(p, [app[p] EXCEPT !.adminDialogOpen = TRUE, !.effects = {"loadUsers", "fetchApiKeys"}])

closeAdminDialog(p) ==
    /\ app[p].adminDialogOpen /\ NoEffectDue(p)
    /\ UiOnly(p, [app[p] EXCEPT !.adminDialogOpen = FALSE])

\* if (!db || !currentUser?.is_admin) return; const userList = await db.listUsers()
loadUsers(p) ==
    /\ "loadUsers" \in app[p].effects /\ app[p].task = "none"
    /\ IF IsAdminSession(p)
       THEN /\ listUsers_call(p)
            /\ SetApp(p, [app[p] EXCEPT !.task = "loadUsers", !.effects = @ \ {"loadUsers"},
                                        !.caller = app[p].currentUser])
       ELSE UiOnly(p, [app[p] EXCEPT !.effects = @ \ {"loadUsers"}])

loadUsers_done(p) ==
    /\ app[p].task = "loadUsers"
    /\ Resume(p)
    /\ SetApp(p, [app[p] EXCEPT !.task = "none", !.caller = Null,
                                !.users = IF ret[p].ok THEN ret[p].list ELSE @])

\* AdminDialog, if (open): const keys = await db.getAllApiKeys() on a TursoService of its own
fetchApiKeys(p) ==
    /\ "fetchApiKeys" \in app[p].effects /\ app[p].task = "none"
    /\ getAllApiKeys_call(p)
    /\ SetApp(p, [app[p] EXCEPT !.task = "fetchApiKeys", !.effects = @ \ {"fetchApiKeys"},
                                !.caller = app[p].currentUser])

fetchApiKeys_done(p) ==
    /\ app[p].task = "fetchApiKeys"
    /\ Resume(p)
    /\ SetApp(p, [app[p] EXCEPT !.task = "none", !.caller = Null,
                                !.userApiKeys = IF ret[p].ok THEN ret[p].keys ELSE @])

\* the dialog's buttons can be pressed while it is open and no App function is running
DialogIdle(p) == app[p].adminDialogOpen /\ NoEffectDue(p) /\ app[p].task = "none"

\* if (!db || !currentUser?.is_admin) return; const { user } = await db.createUser(email)
handleAddUser(p) ==
    /\ DialogIdle(p) /\ IsAdminSession(p)
    /\ Len(app[p].users) < MaxListed
    /\ \E email \in Emails : createUser_call(p, email, FALSE)
    /\ SetApp(p, [app[p] EXCEPT !.task = "handleAddUser", !.caller = app[p].currentUser])

\* setUsers(prev => [...prev, user])
handleAddUser_done(p) ==
    /\ app[p].task = "handleAddUser"
    /\ Resume(p)
    /\ SetApp(p, [app[p] EXCEPT !.task = "none", !.caller = Null,
                                !.users = IF ret[p].ok THEN Append(@, ret[p].user) ELSE @])

\* userApiKeys[user.id]
KeyShownFor(p, userId) == {e \in app[p].userApiKeys : e.user_id = userId}

\* Generate Key is rendered for a listed user without an entry in userApiKeys
handleGenerateKey(p) ==
    /\ DialogIdle(p) /\ IsAdminSession(p)
    /\ \E i \in 1..Len(app[p].users) :
          LET userId == app[p].users[i].id
          IN  /\ KeyShownFor(p, userId) = {}
              /\ generateApiKey_call(p, userId)
              /\ SetApp(p, [app[p] EXCEPT !.task = "handleGenerateKey", !.target = userId,
                                          !.caller = app[p].currentUser])

\* setUserApiKeys(prev => ({ ...prev, [userId]: key }))
handleGenerateKey_done(p) ==
    /\ app[p].task = "handleGenerateKey"
    /\ Resume(p)
    /\ SetApp(p, [app[p] EXCEPT
                     !.task = "none", !.caller = Null, !.target = 0,
                     !.userApiKeys = IF ret[p].ok
                                     THEN (@ \ KeyShownFor(p, app[p].target))
                                             \cup {[user_id |-> app[p].target, key |-> ret[p].key]}
                                     ELSE @])

\* Revoke Key is rendered for a listed user with an entry, unless user.is_admin
handleRevokeKey(p) ==
    /\ DialogIdle(p) /\ IsAdminSession(p)
    /\ \E i \in 1..Len(app[p].users) :
          LET user == app[p].users[i]
          IN  /\ ~user.is_admin
              /\ \E e \in KeyShownFor(p, user.id) : revokeApiKey_call(p, e.key)
              /\ SetApp(p, [app[p] EXCEPT !.task = "handleRevokeKey", !.target = user.id,
                                          !.caller = app[p].currentUser])

\* setUserApiKeys(prev => { delete newKeys[userId] })
handleRevokeKey_done(p) ==
    /\ app[p].task = "handleRevokeKey"
    /\ Resume(p)
    /\ SetApp(p, [app[p] EXCEPT
                     !.task = "none", !.caller = Null, !.target = 0,
                     !.userApiKeys = IF ret[p].ok THEN @ \ KeyShownFor(p, app[p].target) ELSE @])

\* ---------------------------------------------------------------- App: chats and messages
\* an entry of the messages state: a stored message (id: its UUID), the temporary
\* user message 'temp-<n>' or the error message 'error-<n>' of the n-th submission
Shown(kind, id, chatId, role, content) ==
    [kind |-> kind, id |-> id, chat_id |-> chatId, role |-> role, content |-> content]
ShownStored(m) == Shown("stored", m.id, m.chat_id, m.role, m.content)
ErrorMessage(chatId, n) == Shown("error", n, chatId, "assistant", "Error")

\* const chat = await db.createChat(newChatTitle || 'New Chat', currentUser.id, newSystemPrompt):
\* createChat(title, userId) has no parameter that receives the third argument
handleNewChat(p) ==
    /\ app[p].task = "none" /\ NoEffectDue(p) /\ app[p].currentUser # Null
    /\ \E title \in NewTitles, prompt \in SystemPrompts :
          /\ createChat_call(p, title, app[p].currentUser.id)
          /\ SetApp(p, [app[p] EXCEPT !.task = "handleNewChat", !.newSystemPrompt = prompt])

\* setSelectedChatId(chat.id); setChats(prev => [chat, ...prev]); setMessages([]); resetForm();
\* the change of selectedChatId runs the effect that loads the messages
handleNewChat_done(p) ==
    /\ app[p].task = "handleNewChat"
    /\ Resume(p)
    /\ IF ret[p].ok
       THEN SetApp(p, [app[p] EXCEPT !.task = "none", !.selectedChatId = ret[p].chat.id,
                                    !.chats = <<ret[p].chat>> \o @, !.messages = <<>>,
                                    !.newSystemPrompt = DefaultSystemPrompt,
                                    !.effects = @ \cup {"loadMessages"}])
       ELSE SetApp(p, [app[p] EXCEPT !.task = "none"])

\* if (!db || !currentUser || !selectedChatId) return;
\* const chatMessages = await db.getChatMessages(selectedChatId, currentUser.id)
loadMessages(p) ==
    /\ "loadMessages" \in app[p].effects /\ app[p].task = "none"
    /\ IF app[p].currentUser # Null /\ app[p].selectedChatId # 0
       THEN /\ getChatMessages_call(p, app[p].selectedChatId, app[p].currentUser.id)
            /\ SetApp(p, [app[p] EXCEPT !.task = "loadMessages", !.effects = @ \ {"loadMessages"}])
       ELSE UiOnly(p, [app[p] EXCEPT !.effects = @ \ {"loadMessages"}])

\* if (chatMessages) setMessages(chatMessages)
loadMessages_done(p) ==
    /\ app[p].task = "loadMessages"
    /\ Resume(p)
    /\ SetApp(p, [app[p] EXCEPT
                     !.task = "none",
                     !.messages = IF ret[p].ok
                                  THEN [i \in 1..Len(ret[p].list) |-> ShownStored(ret[p].list[i])]
                                  ELSE @])

\* the messages array of the request: the system turn, ...messages, the new user turn,
\* each mapped to { role, content }
RequestMessages(chat, shown, messageText) ==
    <<[role |-> "system", content |-> Prop(chat, "system_prompt")]>>
        \o [i \in 1..Len(shown) |-> [role |-> shown[i].role, content |-> shown[i].content]]
        \o <<[role |-> "user", content |-> messageText]>>

\* chats.find(c => c.id === selectedChatId)
FindChat(p) == {i \in 1..Len(app[p].chats) : app[p].chats[i].id = app[p].selectedChatId}

\* up to the await: the temporary message is shown, then Promise.all starts
\* db.addMessage(selectedChatId, 'user', messageText, currentUser.id) and axios.post(...)
\* the body of handleMessageSubmit(messageText) on the page state r (that of client p
\* after what its caller has set)
handleMessageSubmit_from(p, r, messageText) ==
    /\ app[p].task = "none" /\ NoEffectDue(p)
    /\ app[p].selectedChatId # 0 /\ app[p].currentUser # Null /\ app[p].apiSettings # Null
    /\ app[p].submits < MaxSubmits /\ app[p].http.state # "pending"
    /\    LET n == app[p].submits + 1
              chatId == app[p].selectedChatId
              userMessage == Shown("temp", n, chatId, "user", messageText)
          IN  IF FindChat(p) = {}
              THEN \* throw new Error('Chat not found'), caught below; the promise is
                   \* settled, so ChatForm's finally runs
                   UiOnly(p, [r EXCEPT !.submits = n, !.chatForm.isSubmitting = FALSE,
                                       !.messages = @ \o <<userMessage, ErrorMessage(chatId, n)>>])
              ELSE LET chat == app[p].chats[CHOOSE i \in FindChat(p) : \A j \in FindChat(p) : i <= j]
                   IN  /\ addMessage_call(p, chatId, "user", messageText, app[p].currentUser.id)
                       /\ SetApp(p, [r EXCEPT
                               !.task = "handleMessageSubmit", !.submits = n,
                               !.currentMessageId = n,
                               !.messages = @ \o <<userMessage>>,
                               !.closure = [chatId |-> chatId, userId |-> app[p].currentUser.id,
                                            messageText |-> messageText, tempMessageId |-> n],
                               !.savedUserMessage = Null,
                               !.http = [state |-> "pending", relayed |-> FALSE,
                                         body |-> RequestMessages(chat, app[p].messages, messageText)]])

handleMessageSubmit(p) ==
    \E messageText \in Contents : handleMessageSubmit_from(p, app[p], messageText)

\* what the user has typed into the text field of ChatForm, as a sequence of words and
\* white space
FormTexts ==
    {<<>>, <<" ">>, <<"hello">>, <<" ", "hello">>, <<"hello", " ">>, <<" ", "hello", " ">>}
\* String.prototype.trim
RECURSIVE trim(_)
trim(text) ==
    IF text = <<>> THEN <<>>
    ELSE IF Head(text) = " " THEN trim(Tail(text))
    ELSE IF text[Len(text)] = " " THEN trim(SubSeq(text, 1, Len(text) - 1))
    ELSE text
\* the string of a text of one word
TextOf(text) == IF Len(text) = 1 THEN text[1] ELSE ""

\* <ChatForm disabled={!apiSettings?.api_key || !selectedChatId} />
ChatFormDisabled(p) ==
    \/ app[p].apiSettings = Null
    \/ app[p].apiSettings.api_key = ""
    \/ app[p].selectedChatId = 0

\* TextField onChange: setMessage(e.target.value); the field is disabled while
\* isSubmitting || disabled
ChatForm_setMessage(p) ==
    /\ app[p].currentUser # Null /\ NoEffectDue(p)
    /\ ~app[p].chatForm.isSubmitting /\ ~ChatFormDisabled(p)
    /\ \E text \in FormTexts :
          /\ text # app[p].chatForm.message
          /\ UiOnly(p, [app[p] EXCEPT !.chatForm.message = text])

\* (isSubmitting not set)
ChatFormSubmitting_unset(form) == [form EXCEPT !.message = <<>>]
\* setIsSubmitting(true); const currentMessage = message.trim(); setMessage('')
ChatFormSubmitting(form) == [form EXCEPT !.isSubmitting = TRUE, !.message = <<>>]

\* the submit event of the form (the Send button or the Enter key):
\* if (!message.trim() || isSubmitting || disabled) return; ...; await onSubmit(currentMessage)
ChatForm_handleSubmit(p) ==
    /\ app[p].currentUser # Null /\ NoEffectDue(p)
    /\ IF \/ trim(app[p].chatForm.message) = <<>>
          \/ app[p].chatForm.isSubmitting
          \/ ChatFormDisabled(p)
       THEN UNCHANGED vars
       ELSE handleMessageSubmit_from(p, [app[p] EXCEPT !.chatForm = ChatFormSubmitting(@)],
                                     TextOf(trim(app[p].chatForm.message)))

\* the chat-completion endpoint answers, or the request fails
http_respond(p) ==
    /\ app[p].http.state = "pending"
    /\ \E outcome \in {"ok", "error"} : UiOnly(p, [app[p] EXCEPT !.http.state = outcome])

\* (the request left out of the wait)
PromiseAllFulfilled_noApi(p) == pc[p] = "done" /\ ret[p].ok
\* Promise.all fulfils once both promises have
PromiseAllFulfilled(p) == pc[p] = "done" /\ ret[p].ok /\ app[p].http.state = "ok"
\* ... and rejects as soon as one of them has
PromiseAllRejected(p) == (pc[p] = "done" /\ ~ret[p].ok) \/ app[p].http.state = "error"

\* const [savedUserMessage, apiResponse] = await Promise.all([...])
handleMessageSubmit_resolved(p) ==
    /\ app[p].task = "handleMessageSubmit"
    /\ PromiseAllFulfilled(p)
    /\ Resume(p)
    /\ SetApp(p, [app[p] EXCEPT !.task = "handleMessageSubmit_assistant",
                                !.savedUserMessage = ret[p].message])

\* db.addMessage(selectedChatId, 'assistant', apiResponse.data.choices[0].message.content, currentUser.id)
handleMessageSubmit_assistant(p) ==
    /\ app[p].task = "handleMessageSubmit_assistant"
    /\ addMessage_call(p, app[p].closure.chatId, "assistant", Completion, app[p].closure.userId)
    /\ SetApp(p, [app[p] EXCEPT !.task = "handleMessageSubmit_relay"])

\* setMessages(prev => prev.map(msg => msg.id === tempMessageId ? savedUserMessage : msg)
\*     .concat(assistantMessage)); setChats(... last_message: assistantMessage.content ...)
handleMessageSubmit_done(p) ==
    /\ app[p].task = "handleMessageSubmit_relay"
    /\ ret[p].ok
    /\ Resume(p)
    /\ LET isTemp(m) == m.kind = "temp" /\ m.id = app[p].closure.tempMessageId
           prev == app[p].messages
       IN  SetApp(p, [app[p] EXCEPT
               !.task = "none", !.closure = NoClosure, !.savedUserMessage = Null,
               !.http.relayed = TRUE, !.currentMessageId = 0,
               !.chatForm.isSubmitting = FALSE,
               !.messages = [i \in 1..Len(prev) |->
                                IF isTemp(prev[i]) THEN ShownStored(app[p].savedUserMessage)
                                ELSE prev[i]] \o <<ShownStored(ret[p].message)>>,
               !.chats = [i \in 1..Len(@) |->
                             IF @[i].id = app[p].closure.chatId
                             THEN [@[i] EXCEPT !.last_message = ret[p].message.content]
                             ELSE @[i]]])

\* catch: the error message is shown and setCurrentMessageId(null); a call that is
\* still running is left to run. The promise ChatForm awaits is settled by this or by
\* the step above, and its finally does setIsSubmitting(false)
handleMessageSubmit_catch(p) ==
    /\ \/ app[p].task = "handleMessageSubmit" /\ PromiseAllRejected(p)
       \/ app[p].task = "handleMessageSubmit_relay" /\ pc[p] = "done" /\ ~ret[p].ok
    /\ IF pc[p] = "done" THEN Resume(p) ELSE UNCHANGED <<store, call>>
    /\ SetApp(p, [app[p] EXCEPT
                     !.task = "none", !.closure = NoClosure, !.savedUserMessage = Null,
                     !.currentMessageId = 0, !.chatForm.isSubmitting = FALSE,
                     !.messages = @ \o <<ErrorMessage(app[p].closure.chatId,
                                                      app[p].closure.tempMessageId)>>])

\* ChatList onChatSelect={setSelectedChatId}: nothing but the selection is set, also
\* while a call is in flight; a changed selection runs the effect that loads the messages
selectChat(p) ==
    /\ app[p].currentUser # Null /\ NoEffectDue(p)
    /\ \E i \in 1..Len(app[p].chats) :
          /\ app[p].chats[i].id # app[p].selectedChatId
          /\ UiOnly(p, [app[p] EXCEPT !.selectedChatId = app[p].chats[i].id,
                                      !.effects = @ \cup {"loadMessages"}])

\* if (!db || !currentUser) return; await db.deleteChat(chatId, currentUser.id)
handleDeleteChat(p) ==
    /\ app[p].task = "none" /\ NoEffectDue(p) /\ app[p].currentUser # Null
    /\ \E i \in 1..Len(app[p].chats) :
          /\ deleteChat_call(p, app[p].chats[i].id, app[p].currentUser.id)
          /\ SetApp(p, [app[p] EXCEPT !.task = "handleDeleteChat",
                                      !.target = app[p].chats[i].id,
                                      !.closure = [NoClosure EXCEPT !.chatId = app[p].selectedChatId]])

\* setChats(prev => prev.filter(chat => chat.id !== chatId));
\* if (selectedChatId === chatId) setSelectedChatId(undefined), with the selectedChatId
\* of the render in which the button was pressed; setMessages is not called
handleDeleteChat_done(p) ==
    /\ app[p].task = "handleDeleteChat"
    /\ Resume(p)
    /\ LET r == [app[p] EXCEPT !.task = "none", !.target = 0, !.closure = NoClosure]
           unselect == app[p].closure.chatId = app[p].target /\ app[p].selectedChatId # 0
       IN  IF ret[p].ok
           THEN SetApp(p, [r EXCEPT
                   !.chats = SelectSeq(@, LAMBDA chat : chat.id # app[p].target),
                   !.selectedChatId = IF app[p].closure.chatId = app[p].target THEN 0 ELSE @,
                   !.effects = IF unselect THEN @ \cup {"loadMessages"} ELSE @])
           ELSE SetApp(p, r)

\* a client other than the pages followed here: another browser or program that
\* holds the database credentials
Other(p) == app[p] = NoApp

\* a user who has saved provider settings is logged in on the page of client c1 and
\* has no chat yet; client c2 is another client of the database
InitSubmit ==
    /\ now = 0
    /\ users = {[id |-> 1, email |-> AdminEmail, is_admin |-> 1, created_at |-> 0],
                [id |-> 2, email |-> "user@example.com", is_admin |-> 0, created_at |-> 0]}
    /\ api_keys = {[id |-> 1, user_id |-> 1, key |-> 1, created_at |-> 0],
                   [id |-> 2, user_id |-> 2, key |-> 2, created_at |-> 0]}
    /\ \E settings \in SettingsInputs :
          /\ api_settings = {DefaultSettingsRow(1), SettingsRow(2, settings, 0)}
          /\ app = [p \in Procs |->
                      IF p = "c1"
                      THEN [NoApp EXCEPT
                              !.currentUser = [id |-> 2, email |-> "user@example.com",
                                               is_admin |-> FALSE, created_at |-> 0],
                              !.apiSettings = rowToApiSettings(SettingsRow(2, settings, 0))]
                      ELSE NoApp]
    /\ chats = {}
    /\ messages = {}
    /\ foreign_keys \in BOOLEAN
    /\ uuid = [user |-> 2, key |-> 2, chat |-> 0, message |-> 0, reply |-> 0, last |-> 0]
    /\ chatOwner = [c \in 1..MaxChats |-> 0]
    /\ InitProcs

NextSubmit ==
    \/ \E p \in Procs : handleNewChat(p)
    \/ \E p \in Procs : createChat_select(p)
    \/ \E p \in Procs : handleNewChat_done(p)
    \/ \E p \in Procs : loadMessages(p)
    \/ \E p \in Procs : getChatMessages_select(p)
    \/ \E p \in Procs : loadMessages_done(p)
    \/ \E p \in Procs : handleMessageSubmit(p)
    \/ \E p \in Procs : http_respond(p)
    \/ \E p \in Procs : addMessage_insert(p)
    \/ \E p \in Procs : addMessage_update(p)
    \/ \E p \in Procs : addMessage_select(p)
    \/ \E p \in Procs : handleMessageSubmit_resolved(p)
    \/ \E p \in Procs : handleMessageSubmit_assistant(p)
    \/ \E p \in Procs : handleMessageSubmit_done(p)
    \/ \E p \in Procs : handleMessageSubmit_catch(p)
    \/ \E p \in Procs : Other(p) /\ deleteChat_getChat(p)
    \/ \E p \in Procs : deleteChat_messages(p)
    \/ \E p \in Procs : deleteChat_chat(p)
    \/ \E p \in Procs : app[p].task = "none" /\ Return(p)

SpecSubmit == InitSubmit /\ [][NextSubmit]_vars

\* the page of InitSubmit, on which the user also selects and deletes chats; the user
\* has no chat yet, or a renamed one that the page has listed and that is not selected
InitThread ==
    /\ now = 0
    /\ users = {[id |-> 1, email |-> AdminEmail, is_admin |-> 1, created_at |-> 0],
                [id |-> 2, email |-> "user@example.com", is_admin |-> 0, created_at |-> 0]}
    /\ api_keys = {[id |-> 1, user_id |-> 1, key |-> 1, created_at |-> 0],
                   [id |-> 2, user_id |-> 2, key |-> 2, created_at |-> 0]}
    /\ \E listed \in 0..1, api_key \in {"", "sk-or-1"}, input \in SettingsInputs :
       LET settings == [input EXCEPT !.api_key = api_key] IN
          /\ api_settings = {DefaultSettingsRow(1), SettingsRow(2, settings, 0)}
          /\ chats = {[id |-> 1, title |-> "Renamed", user_id |-> 2, created_at |-> 0,
                       last_message |-> NullText] : c \in 1..listed}
          /\ chatOwner = [c \in 1..MaxChats |-> IF c <= listed THEN 2 ELSE 0]
          /\ uuid = [user |-> 2, key |-> 2, chat |-> listed, message |-> 0, reply |-> 0,
                     last |-> 0]
          /\ app = [p \in Procs |->
                      IF p = "c1"
                      THEN [NoApp EXCEPT
                              !.currentUser = [id |-> 2, email |-> "user@example.com",
                                               is_admin |-> FALSE, created_at |-> 0],
                              !.apiSettings = rowToApiSettings(SettingsRow(2, settings, 0)),
                              !.chats = [c \in 1..listed |->
                                            rowToChat([id |-> 1, title |-> "Renamed",
                                                       user_id |-> 2, created_at |-> 0,
                                                       last_message |-> NullText])]]
                      ELSE NoApp]
    /\ messages = {}
    /\ foreign_keys \in BOOLEAN
    /\ InitProcs

NextThread ==
    \/ \E p \in Procs : handleNewChat(p)
    \/ \E p \in Procs : createChat_select(p)
    \/ \E p \in Procs : handleNewChat_done(p)
    \/ \E p \in Procs : selectChat(p)
    \/ \E p \in Procs : loadMessages(p)
    \/ \E p \in Procs : getChatMessages_select(p)
    \/ \E p \in Procs : loadMessages_done(p)
    \/ \E p \in Procs : ChatForm_setMessage(p)
    \/ \E p \in Procs : ChatForm_handleSubmit(p)
    \/ \E p \in Procs : http_respond(p)
    \/ \E p \in Procs : addMessage_insert(p)
    \/ \E p \in Procs : addMessage_update(p)
    \/ \E p \in Procs : addMessage_select(p)
    \/ \E p \in Procs : handleMessageSubmit_resolved(p)
    \/ \E p \in Procs : handleMessageSubmit_assistant(p)
    \/ \E p \in Procs : handleMessageSubmit_done(p)
    \/ \E p \in Procs : handleMessageSubmit_catch(p)
    \/ \E p \in Procs : handleDeleteChat(p)
    \/ \E p \in Procs : deleteChat_messages(p)
    \/ \E p \in Procs : deleteChat_chat(p)
    \/ \E p \in Procs : handleDeleteChat_done(p)

SpecThread == InitThread /\ [][NextThread]_vars

\* ---------------------------------------------------------------- App: the effects after login
Due(p, effect) == effect \in app[p].effects /\ app[p].task = "none"
Ran(p, effect) == app[p].effects \ {effect}

\* useEffect(..., [db, config.userApiKey]): const user = await db.validateApiKey(config.userApiKey)
validateUser(p) ==
    /\ Due(p, "validateUser")
    /\ IF app[p].userApiKey = 0
       THEN UiOnly(p, [app[p] EXCEPT !.currentUser = Null, !.effects = Ran(p, "validateUser")])
       ELSE /\ validateApiKey_call(p, app[p].userApiKey)
            /\ SetApp(p, [app[p] EXCEPT !.task = "validateUser",
                                        !.effects = Ran(p, "validateUser")])

\* if (user) setCurrentUser(user): a new object, so every effect that depends on
\* currentUser runs again; catch: setCurrentUser(null)
validateUser_done(p) ==
    /\ app[p].task = "validateUser"
    /\ Resume(p)
    /\ IF ~ret[p].ok
       THEN SetApp(p, [app[p] EXCEPT !.task = "none", !.currentUser = Null,
                                    !.effects = @ \cup {"loadChats"}])
       ELSE IF ret[p].user = Null
       THEN SetApp(p, [app[p] EXCEPT !.task = "none"])
       ELSE SetApp(p, [app[p] EXCEPT !.task = "none", !.currentUser = ret[p].user,
                                    !.effects = @ \cup (IF app[p].followEffects
                                                        THEN CurrentUserEffects(app[p])
                                                        ELSE {})])

\* useEffect(..., [db, currentUser]): const settings = await db.getApiSettings(currentUser.id)
loadApiSettings(p) ==
    /\ Due(p, "loadApiSettings")
    /\ IF app[p].currentUser = Null
       THEN UiOnly(p, [app[p] EXCEPT !.effects = Ran(p, "loadApiSettings")])
       ELSE /\ getApiSettings_call(p, app[p].currentUser.id)
            /\ SetApp(p, [app[p] EXCEPT !.task = "loadApiSettings",
                                        !.effects = Ran(p, "loadApiSettings")])

\* if (settings) setApiSettings(settings): getApiSettings builds a new object on every
\* call, so the state changes and the settings-init effect is due
SetApiSettings(r, settings) ==
    IF settings = Null THEN r
    ELSE [r EXCEPT !.apiSettings = settings, !.effects = @ \cup {"settingsInit"}]

loadApiSettings_done(p) ==
    /\ app[p].task = "loadApiSettings"
    /\ Resume(p)
    /\ SetApp(p, IF ret[p].ok
                 THEN SetApiSettings([app[p] EXCEPT !.task = "none"], ret[p].settings)
                 ELSE [app[p] EXCEPT !.task = "none"])

\* useEffect(..., [db, currentUser]): Promise.all([db.getChats(currentUser.id),
\* db.getApiSettings(currentUser.id)]); the two SELECTs are followed one after the other
loadChats(p) ==
    /\ Due(p, "loadChats")
    /\ IF app[p].currentUser = Null
       THEN UiOnly(p, [app[p] EXCEPT !.chats = <<>>, !.effects = Ran(p, "loadChats")])
       ELSE /\ getChats_call(p, app[p].currentUser.id)
            /\ SetApp(p, [app[p] EXCEPT !.task = "loadChats", !.effects = Ran(p, "loadChats"),
                                        !.caller = app[p].currentUser])

loadChats_fetched(p) ==
    /\ app[p].task = "loadChats"
    /\ Resume(p)
    /\ SetApp(p, IF ret[p].ok
                 THEN [app[p] EXCEPT !.task = "loadChats_getApiSettings",
                                     !.fetchedChats = ret[p].list]
                 ELSE [app[p] EXCEPT !.task = "none"])

loadChats_getApiSettings(p) ==
    /\ app[p].task = "loadChats_getApiSettings"
    /\ getApiSettings_call(p, app[p].caller.id)
    /\ SetApp(p, [app[p] EXCEPT !.task = "loadChats_settings"])

\* setChats(fetchedChats); if (settings) setApiSettings(settings)
loadChats_done(p) ==
    /\ app[p].task = "loadChats_settings"
    /\ Resume(p)
    /\ SetApp(p, IF ret[p].ok
                 THEN SetApiSettings([app[p] EXCEPT !.task = "none", !.fetchedChats = <<>>,
                                                    !.chats = app[p].fetchedChats],
                                     ret[p].settings)
                 ELSE [app[p] EXCEPT !.task = "none", !.fetchedChats = <<>>])

\* useEffect(..., [db, currentUser, apiSettings]):
\* if (!db || !currentUser || !apiSettings) return;
\* const settings = await db.getApiSettings(currentUser.id)
settingsInit(p) ==
    /\ Due(p, "settingsInit")
    /\ IF app[p].currentUser = Null \/ app[p].apiSettings = Null
       THEN UiOnly(p, [app[p] EXCEPT !.effects = Ran(p, "settingsInit")])
       ELSE /\ getApiSettings_call(p, app[p].currentUser.id)
            /\ SetApp(p, [app[p] EXCEPT !.task = "settingsInit", !.effects = Ran(p, "settingsInit")])

\* if (settings) setApiSettings(settings): this changes apiSettings, one of the
\* dependencies of the effect itself
settingsInit_done(p) ==
    /\ app[p].task = "settingsInit"
    /\ Resume(p)
    /\ SetApp(p, IF ret[p].ok
                 THEN SetApiSettings([app[p] EXCEPT !.task = "none"], ret[p].settings)
                 ELSE [app[p] EXCEPT !.task = "none"])

\* handleLogin has just run on the page of client c1 with the key of one of the two
\* users: setConfig and setCurrentUser are done, the effects of that render are due;
\* client c2 is another client of the database
InitEffects ==
    /\ now = 0
    /\ users = {[id |-> 1, email |-> AdminEmail, is_admin |-> 1, created_at |-> 0],
                [id |-> 2, email |-> "user@example.com", is_admin |-> 0, created_at |-> 0]}
    /\ api_keys = {[id |-> 1, user_id |-> 1, key |-> 1, created_at |-> 0],
                   [id |-> 2, user_id |-> 2, key |-> 2, created_at |-> 0]}
    /\ api_settings = {DefaultSettingsRow(1), DefaultSettingsRow(2)}
    /\ chats = {}
    /\ messages = {}
    /\ foreign_keys \in BOOLEAN
    /\ uuid = [user |-> 2, key |-> 2, chat |-> 0, message |-> 0, reply |-> 0, last |-> 0]
    /\ chatOwner = [c \in 1..MaxChats |-> 0]
    /\ InitProcs
    /\ \E k \in api_keys, u \in users :
          /\ u.id = k.user_id
          /\ app = [p \in Procs |->
                      IF p = "c1"
                      THEN [NoApp EXCEPT !.userApiKey = k.key, !.localStorage = k.key,
                                         !.followEffects = TRUE,
                                         !.currentUser = rowToUser(u),
                                         !.effects = {"validateUser", "loadApiSettings", "loadChats"}]
                      ELSE NoApp]

\* what client p can do: the effects of its page and the statements of its calls; a
\* client that is no page saves settings and revokes keys
StepEffects(p) ==
    \/ validateUser(p)
    \/ validateUser_done(p)
    \/ loadApiSettings(p)
    \/ loadApiSettings_done(p)
    \/ loadChats(p)
    \/ loadChats_fetched(p)
    \/ loadChats_getApiSettings(p)
    \/ loadChats_done(p)
    \/ settingsInit(p)
    \/ settingsInit_done(p)
    \/ Other(p) /\ updateApiSettings_select(p)
    \/ updateApiSettings_insert(p)
    \/ updateApiSettings_update(p)
    \/ Other(p) /\ revokeApiKey(p)
    \/ Other(p) /\ Return(p)

NextEffects == \E p \in Procs : StepEffects(p)

\* the event loop runs every effect that is due and every continuation whose call has
\* settled, and the database answers every statement: no client waits forever
SpecEffects == InitEffects /\ [][NextEffects]_vars /\ \A p \in Procs : WF_vars(StepEffects(p))

\* ---------------------------------------------------------------- addMessage by two clients
\* the roles the CHECK constraint of messages.role admits, and two texts
MessageRoles == {"user", "assistant"}
MessageTexts == {"hello", Completion}

addMessage_getChat_any(p) ==
    /\ \E chatId \in ChatIds, role \in MessageRoles, content \in MessageTexts, userId \in UserIds :
          addMessage_call(p, chatId, role, content, userId)
    /\ UNCHANGED app

\* a user has created a chat; two clients hold the user's session
InitLastMessage ==
    /\ now = 0
    /\ users = {[id |-> 1, email |-> AdminEmail, is_admin |-> 1, created_at |-> 0],
                [id |-> 2, email |-> "user@example.com", is_admin |-> 0, created_at |-> 0]}
    /\ api_keys = {[id |-> 1, user_id |-> 1, key |-> 1, created_at |-> 0],
                   [id |-> 2, user_id |-> 2, key |-> 2, created_at |-> 0]}
    /\ api_settings = {DefaultSettingsRow(1), DefaultSettingsRow(2)}
    /\ \E title \in NewTitles, owner \in {1, 2} :
          /\ chats = {[id |-> 1, title |-> title, user_id |-> owner, created_at |-> 0,
                       last_message |-> NullText]}
          /\ chatOwner = [c \in 1..MaxChats |-> IF c = 1 THEN owner ELSE 0]
    /\ messages = {}
    /\ foreign_keys \in BOOLEAN
    /\ uuid = [user |-> 2, key |-> 2, chat |-> 1, message |-> 0, reply |-> 0, last |-> 0]
    /\ InitProcs
    /\ app = [p \in Procs |-> NoApp]

NextLastMessage ==
    \/ \E p \in Procs : addMessage_getChat_any(p)
    \/ \E p \in Procs : addMessage_insert(p)
    \/ \E p \in Procs : addMessage_update(p)
    \/ \E p \in Procs : addMessage_select(p)
    \/ \E p \in Procs : Return(p)

SpecLastMessage == InitLastMessage /\ [][NextLastMessage]_vars

\* ---------------------------------------------------------------- ModelSettingsDialog, handleSaveSettings
\* what the fields and sliders of the dialog can hold: the key field empty or filled,
\* max_tokens 100..8000, temperature 0..2 (in tenths)
SettingsForms ==
    [api_key : {"", "sk-or-1"}, api_url : {DefaultApiUrl}, model : {DefaultModel, "openai/gpt-4o"},
     max_tokens : {100, DefaultMaxTokens, 8000}, temperature : {0, DefaultTemperature, 20}]

\* x || default
OrDefault(x, falsy, default) == IF x = falsy THEN default ELSE x

\* the onChange handlers of the dialog: setTempSettings({ ...tempSettings, field: value })
setTempSettings(p) ==
    /\ app[p].task = "none" /\ NoEffectDue(p) /\ app[p].currentUser # Null
    /\ \E form \in SettingsForms :
          /\ form # app[p].tempSettings
          /\ UiOnly(p, [app[p] EXCEPT !.tempSettings = form])

\* ModelSettingsDialog.handleSave (Save is disabled while the key field is empty) calls
\* onSave(tempSettings), which is handleSaveSettings(newSettings):
\* await db.updateApiSettings(currentUser.id, { api_key: newSettings.api_key || '', ... })
handleSaveSettings(p) ==
    LET newSettings == app[p].tempSettings
    IN  /\ app[p].task = "none" /\ NoEffectDue(p) /\ app[p].currentUser # Null
        /\ newSettings # Null /\ newSettings.api_key # ""
        /\ updateApiSettings_call(p, app[p].currentUser.id,
               [api_key |-> OrDefault(newSettings.api_key, "", ""),
                api_url |-> OrDefault(newSettings.api_url, "", DefaultApiUrl),
                model |-> OrDefault(newSettings.model, "", DefaultModel),
                max_tokens |-> OrDefault(newSettings.max_tokens, 0, DefaultMaxTokens),
                temperature |-> OrDefault(newSettings.temperature, 0, DefaultTemperature)])
        /\ SetApp(p, [app[p] EXCEPT !.task = "handleSaveSettings", !.newSettings = newSettings])

\* setApiSettings(settings); setModelSettingsOpen(false); catch: alert
handleSaveSettings_done(p) ==
    /\ app[p].task = "handleSaveSettings"
    /\ Resume(p)
    /\ SetApp(p, IF ret[p].ok
                 THEN SetApiSettings([app[p] EXCEPT !.task = "none", !.newSettings = Null],
                                     ret[p].settings)
                 ELSE [app[p] EXCEPT !.task = "none", !.newSettings = Null])

NextSave ==
    \/ \E p \in Procs : setTempSettings(p)
    \/ \E p \in Procs : handleSaveSettings(p)
    \/ \E p \in Procs : handleSaveSettings_done(p)
    \/ \E p \in Procs : settingsInit(p)
    \/ \E p \in Procs : settingsInit_done(p)
    \/ \E p \in Procs : Other(p) /\ updateApiSettings_select(p)
    \/ \E p \in Procs : updateApiSettings_insert(p)
    \/ \E p \in Procs : updateApiSettings_update(p)
    \/ \E p \in Procs : Other(p) /\ Return(p)

SpecSave == InitSubmit /\ [][NextSave]_vars

\* ---------------------------------------------------------------- login and logout
\* the page of client c1 shows LoginForm on the database of two users; client c2 is
\* another client, which revokes keys
InitLogin ==
    /\ now = 0
    /\ users = {[id |-> 1, email |-> AdminEmail, is_admin |-> 1, created_at |-> 0],
                [id |-> 2, email |-> "user@example.com", is_admin |-> 0, created_at |-> 0]}
    /\ api_keys = {[id |-> 1, user_id |-> 1, key |-> 1, created_at |-> 0],
                   [id |-> 2, user_id |-> 2, key |-> 2, created_at |-> 0]}
    /\ api_settings = {DefaultSettingsRow(1), DefaultSettingsRow(2)}
    /\ chats = {}
    /\ messages = {}
    /\ foreign_keys \in BOOLEAN
    /\ uuid = [user |-> 2, key |-> 2, chat |-> 0, message |-> 0, reply |-> 0, last |-> 0]
    /\ chatOwner = [c \in 1..MaxChats |-> 0]
    /\ InitProcs
    /\ app = [p \in Procs |-> IF p = "c1" THEN [NoApp EXCEPT !.followEffects = TRUE] ELSE NoApp]

NextLogin ==
    \/ \E p \in Procs : ~Other(p) /\ handleLogin(p)
    \/ \E p \in Procs : handleLogin_done(p)
    \/ \E p \in Procs : handleLogout(p)
    \/ \E p \in Procs : validateUser(p)
    \/ \E p \in Procs : validateUser_done(p)
    \/ \E p \in Procs : loadApiSettings(p)
    \/ \E p \in Procs : loadApiSettings_done(p)
    \/ \E p \in Procs : loadChats(p)
    \/ \E p \in Procs : loadChats_fetched(p)
    \/ \E p \in Procs : loadChats_getApiSettings(p)
    \/ \E p \in Procs : loadChats_done(p)
    \/ \E p \in Procs : settingsInit(p)
    \/ \E p \in Procs : settingsInit_done(p)
    \/ \E p \in Procs : Other(p) /\ revokeApiKey(p)
    \/ \E p \in Procs : Other(p) /\ Return(p)

SpecLogin == InitLogin /\ [][NextLogin]_vars

\* ---------------------------------------------------------------- App: the database handle
\* the page of a client with its db, isDbReady and dbConnectionError, the runs of the
\* database-initialization effect (one per configuration, each with its own
\* TursoService) and the database settings dialog; the data-loading effects are left aside

\* the effect on [db, config.userApiKey] after a render with a new db:
\* if (!db || !config.userApiKey) { setCurrentUser(null); return } ... validateApiKey
SetDb(r, value) ==
    IF value = r.db THEN r
    ELSE IF value = Null \/ r.userApiKey = 0
    THEN [r EXCEPT !.db = value, !.currentUser = Null]
    ELSE [r EXCEPT !.db = value, !.effects = @ \cup {"validateUser"}]

\* (the cleanup left out)
Cleanup_none(r) == r
\* return () => { setDb(null); setIsDbReady(false) }
Cleanup(r) == [SetDb(r, Null) EXCEPT !.isDbReady = FALSE]

\* the body of the effect for the configuration of r: without URL or token setDb(null),
\* setIsDbReady(true); otherwise new TursoService(...) and initializeDb()
RunEffect(r) ==
    IF r.config = 0
    THEN [SetDb(r, Null) EXCEPT !.isDbReady = TRUE]
    ELSE [r EXCEPT !.run[r.config] = [NoRun EXCEPT !.task = "initializeTables"]]

\* a page load: useState initial values, config read from localStorage, first effects
Boot(stored) == RunEffect([NoApp EXCEPT !.config = stored, !.storedConfig = stored])

\* what App renders
Page(p) ==
    LET r == app[p]
    IN  IF ~r.isDbReady THEN "Initializing"
        ELSE IF r.currentUser = Null /\ r.userApiKey = 0 /\ r.db # Null THEN "LoginForm"
        ELSE IF (r.dbConnectionError # "" \/ r.config = 0) /\ ~IsAdminSession(p)
        THEN "DatabaseSettingsRequired"
        ELSE IF r.currentUser # Null /\ r.apiSettings # Null /\ r.apiSettings.api_key = ""
        THEN "ModelSettingsDialog"
        ELSE IF r.db = Null \/ r.currentUser = Null THEN "Loading"
        ELSE "Main"

\* SettingsDialog can be opened on two pages and renders its fields and its Save button
\* if (!config.tursoUrl || !config.tursoAuthToken || currentUser?.is_admin)
SaveShown(p) ==
    /\ Page(p) \in {"DatabaseSettingsRequired", "Main"}
    /\ app[p].config = 0 \/ IsAdminSession(p)

\* SettingsDialog.handleSave with URL and token entered: onSave(tempConfig), which is
\* setConfig(newConfig); localStorage.setItem('apiConfig', ...). The effect's
\* dependencies change: the cleanup of the last run (if that had got as far as
\* returning one) and then the effect body run
saveConfig(p) ==
    /\ SaveShown(p) /\ NoEffectDue(p)
    /\ \E c \in Configs :
          /\ c # app[p].config
          /\ app[p].run[c].task \in {"idle", "ready", "failed"}
          /\ LET old == app[p].config
                 r == IF old = 0 THEN app[p]
                      ELSE Cleanup([app[p] EXCEPT !.run[old].superseded = TRUE])
             IN  UiOnly(p, RunEffect([r EXCEPT !.config = c, !.storedConfig = c]))

\* (setIsDbReady(true) left out)
InitializeDbCatch_notReady(r, c) ==
    [SetDb(r, Null) EXCEPT !.dbConnectionError = "Failed to initialize database",
                           !.run[c].task = "failed"]
\* catch: setDbConnectionError(error.message); setDb(null); setIsDbReady(true)
InitializeDbCatch(r, c) ==
    [SetDb(r, Null) EXCEPT !.dbConnectionError = "Failed to initialize database",
                           !.isDbReady = TRUE, !.run[c].task = "failed"]

\* await dbInstance.initializeTables() settles (CREATE TABLE where missing, no row
\* changes; the connection may fail); then setDb(dbInstance), whether or not the run
\* has been superseded; dbInstance.listUsers() is called
run_initializeTables(p, c) ==
    /\ app[p].run[c].task = "initializeTables"
    /\ \E ok \in BOOLEAN :
          UiOnly(p, IF ok
                    THEN SetDb([app[p] EXCEPT !.run[c].task = "listUsers",
                                              !.run[c].initialized = TRUE],
                               [config |-> c, initialized |-> TRUE])
                    ELSE InitializeDbCatch(app[p], c))

\* const users = await dbInstance.listUsers() settles (one SELECT): with users,
\* localStorage.setItem('apiConfig', { url and token of this run }); setIsDbReady(true)
run_listUsers(p, c) ==
    /\ app[p].run[c].task = "listUsers"
    /\ \E ok \in BOOLEAN :
          UiOnly(p, IF ~ok THEN InitializeDbCatch(app[p], c)
                    ELSE IF users = {} THEN [app[p] EXCEPT !.run[c].task = "createUser"]
                    ELSE [app[p] EXCEPT !.run[c].task = "ready", !.storedConfig = c,
                                        !.isDbReady = TRUE])

\* const { apiKey } = await dbInstance.createUser('admin@example.com', true)
run_createUser(p, c) ==
    /\ app[p].run[c].task = "createUser" /\ app[p].task = "none"
    /\ createUser_call(p, AdminEmail, TRUE)
    /\ SetApp(p, [app[p] EXCEPT !.run[c].task = "createUser_called", !.task = "initializeDb"])

\* localStorage.setItem('apiConfig', ...); alert(`Admin account created! ...`)
run_created(p, c) ==
    /\ app[p].run[c].task = "createUser_called"
    /\ Resume(p)
    /\ SetApp(p, IF ret[p].ok
                 THEN [app[p] EXCEPT !.run[c].task = "alert", !.task = "none",
                                     !.storedConfig = c, !.alert = ret[p].key]
                 ELSE InitializeDbCatch([app[p] EXCEPT !.task = "none"], c))

\* window.location.reload() once the alert is dismissed
run_reload(p, c) ==
    /\ app[p].run[c].task = "alert"
    /\ UiOnly(p, Boot(app[p].storedConfig))

\* the database has no user yet or holds the admin with a key; two browsers load the
\* page, each without or with stored connection settings; the user of client c1 goes on
\* to use the page, the other browser is left alone
InitHandle ==
    /\ now = 0
    /\ \E n \in 0..1 :
          /\ users = {[id |-> 1, email |-> AdminEmail, is_admin |-> 1, created_at |-> 0] :
                         i \in 1..n}
          /\ api_keys = {[id |-> 1, user_id |-> 1, key |-> 1, created_at |-> 0] : i \in 1..n}
          /\ api_settings = {DefaultSettingsRow(1) : i \in 1..n}
          /\ uuid = [user |-> n, key |-> n, chat |-> 0, message |-> 0, reply |-> 0, last |-> 0]
    /\ chats = {}
    /\ messages = {}
    /\ foreign_keys \in BOOLEAN
    /\ chatOwner = [c \in 1..MaxChats |-> 0]
    /\ InitProcs
    /\ \E stored \in [Procs -> {0} \cup Configs] : app = [p \in Procs |-> Boot(stored[p])]

\* what the event loop and the database do by themselves
StepHandle(p) ==
    \/ \E c \in Configs : run_initializeTables(p, c)
    \/ \E c \in Configs : run_listUsers(p, c)
    \/ \E c \in Configs : run_createUser(p, c)
    \/ createUser_selectKey(p)
    \/ createUser_insertKey(p)
    \/ createUser_ensureSettings(p)
    \/ createUser_insertUser(p)
    \/ createUser_insertSettings(p)
    \/ createUser_insertNewKey(p)
    \/ createUser_selectUser(p)
    \/ \E c \in Configs : run_created(p, c)
    \/ \E c \in Configs : run_reload(p, c)
    \/ handleLogin_done(p)
    \/ validateUser(p)
    \/ validateUser_done(p)

NextHandle ==
    \/ \E p \in Procs : StepHandle(p)
    \/ \E p \in Procs : p = "c1" /\ saveConfig(p)
    \/ \E p \in Procs : p = "c1" /\ Page(p) = "LoginForm" /\ handleLogin(p)
    \/ \E p \in Procs : p = "c1" /\ Page(p) = "Main" /\ handleLogout(p)

\* every call settles and every continuation runs; the user is under no obligation
SpecHandle == InitHandle /\ [][NextHandle]_vars /\ \A p \in Procs : WF_vars(StepHandle(p))

\* two browsers are pointed at a database that has no tables yet
InitAdmin ==
    /\ users = {}
    /\ api_keys = {}
    /\ api_settings = {}
    /\ chats = {}
    /\ messages = {}
    /\ foreign_keys \in BOOLEAN
    /\ now = 0
    /\ uuid = [user |-> 0, key |-> 0, chat |-> 0, message |-> 0, reply |-> 0, last |-> 0]
    /\ chatOwner = [c \in 1..MaxChats |-> 0]
    /\ InitProcs
    /\ app = [p \in Procs |-> BootApp]

NextAdmin ==
    \/ \E p \in Procs : initializeDb_initializeTables(p)
    \/ \E p \in Procs : initializeDb_listUsers(p)
    \/ \E p \in Procs : initializeDb_users(p)
    \/ \E p \in Procs : initializeDb_createUser(p)
    \/ \E p \in Procs : initializeDb_alert(p)
    \/ \E p \in Procs : initializeDb_catch(p)
    \/ \E p \in Procs : reload(p)
    \/ \E p \in Procs : createUser_selectKey(p)
    \/ \E p \in Procs : createUser_insertKey(p)
    \/ \E p \in Procs : createUser_ensureSettings(p)
    \/ \E p \in Procs : createUser_insertUser(p)
    \/ \E p \in Procs : createUser_insertSettings(p)
    \/ \E p \in Procs : createUser_insertNewKey(p)
    \/ \E p \in Procs : createUser_selectUser(p)
    \/ \E p \in Procs : handleLogin(p)
    \/ \E p \in Procs : handleLogin_done(p)
    \/ \E p \in Procs : handleLogout(p)
    \/ \E p \in Procs : openAdminDialog(p)
    \/ \E p \in Procs : closeAdminDialog(p)
    \/ \E p \in Procs : loadUsers(p)
    \/ \E p \in Procs : loadUsers_done(p)
    \/ \E p \in Procs : fetchApiKeys(p)
    \/ \E p \in Procs : fetchApiKeys_done(p)
    \/ \E p \in Procs : handleAddUser(p)
    \/ \E p \in Procs : handleAddUser_done(p)
    \/ \E p \in Procs : handleGenerateKey(p)
    \/ \E p \in Procs : generateApiKey_delete(p)
    \/ \E p \in Procs : generateApiKey_insert(p)
    \/ \E p \in Procs : handleGenerateKey_done(p)
    \/ \E p \in Procs : handleRevokeKey(p)
    \/ \E p \in Procs : handleRevokeKey_done(p)

SpecAdmin == InitAdmin /\ [][NextAdmin]_vars
\* ---------------------------------------------------------------- properties
\* client p's call settles in this step
Completes(p) == pc[p] # "done" /\ pc'[p] = "done"
\* client p starts a call of op in this step (its first statement runs)
Calls(p, op) == pc[p] = "idle" /\ pc'[p] # "idle" /\ args'[p].op = op
\* the call client p is in during this step
Acting(p) == IF pc[p] = "idle" THEN args'[p] ELSE args[p]
Owns(userId, chatId) == \E c \in chats : c.id = chatId /\ c.user_id = userId
OwnerOf(chatId) == IF chatId \in DOMAIN chatOwner THEN chatOwner[chatId] ELSE 0

\* C1: getChatMessages(chatId, userId) returns [] whenever no stored chat chatId has
\* user_id = userId, and every message it returns is a message of chat chatId, a chat
\* created with user_id = userId: no call made with user u returns a message of a chat
\* of another user.
C1_MessagesOnlyForOwner ==
    [][\A p \in Procs :
          /\ (Calls(p, "getChatMessages") /\ ~Owns(args'[p].userId, args'[p].chatId))
                => pc'[p] = "done" /\ ret'[p].ok /\ ret'[p].list = <<>>
          /\ (Completes(p) /\ ret'[p].args.op = "getChatMessages")
                => \A i \in 1..Len(ret'[p].list) :
                      /\ ret'[p].list[i].chat_id = ret'[p].args.chatId
                      /\ OwnerOf(ret'[p].list[i].chat_id) = ret'[p].args.userId]_vars
\* one client got the thread of its own chat, the other got [] for that same chat
C1_Witness ==
    \E p, q \in Procs :
        /\ pc[p] = "done" /\ ret[p].args.op = "getChatMessages" /\ ret[p].list # <<>>
        /\ pc[q] = "done" /\ ret[q].args.op = "getChatMessages" /\ ret[q].list = <<>>
        /\ ret[q].args.chatId = ret[p].args.chatId
        /\ ret[q].args.userId # ret[p].args.userId
        /\ \E m \in messages : m.chat_id = ret[q].args.chatId

\* C2: addMessage by a user who does not own the chat (or for a chat that does not
\* exist) throws 'Chat not found or access denied' and changes neither messages nor
\* any chat row; the rows an addMessage call does write belong to the caller's chat.
C2_AddMessageDenied ==
    [][\A p \in Procs :
          /\ (Calls(p, "addMessage") /\ ~Owns(args'[p].userId, args'[p].chatId))
                => /\ pc'[p] = "done" /\ ~ret'[p].ok
                   /\ ret'[p].error = "Chat not found or access denied"
                   /\ messages' = messages /\ chats' = chats
          /\ (pc[p] \in {"addMessage_insert", "addMessage_update"} /\ pc'[p] # pc[p])
                => /\ \A m \in messages' \ messages : OwnerOf(m.chat_id) = args[p].userId
                   /\ \A c \in chats \ chats' : c.user_id = args[p].userId]_vars
C2_Witness ==
    \E p \in Procs :
        /\ pc[p] = "done" /\ ret[p].args.op = "addMessage"
        /\ ret[p].error = "Chat not found or access denied"
        /\ \E c \in chats : c.id = ret[p].args.chatId /\ c.user_id # ret[p].args.userId

\* C3: deleteChat by a user who does not own the chat leaves chats and messages as
\* they were; the rows a deleteChat call removes belong to the caller's chat.
C3_DeleteChatNoOp ==
    [][\A p \in Procs :
          /\ (Calls(p, "deleteChat") /\ ~Owns(args'[p].userId, args'[p].chatId))
                => /\ pc'[p] = "done" /\ ret'[p].ok
                   /\ messages' = messages /\ chats' = chats
          /\ (pc[p] \in {"deleteChat_messages", "deleteChat_chat"} /\ pc'[p] # pc[p])
                => /\ \A m \in messages \ messages' : OwnerOf(m.chat_id) = args[p].userId
                   /\ \A c \in chats \ chats' : c.user_id = args[p].userId]_vars
C3_Witness ==
    \E p \in Procs :
        /\ pc[p] = "done" /\ ret[p].args.op = "deleteChat" /\ ret[p].ok
        /\ \E c \in chats : c.id = ret[p].args.chatId /\ c.user_id # ret[p].args.userId
        /\ \E m \in messages : m.chat_id = ret[p].args.chatId

\* C4: no stored message refers to a chat that is not stored (deleting a chat
\* removes its messages, also when addMessage runs alongside).
C4_NoOrphanMessage == \A m \in messages : \E c \in chats : c.id = m.chat_id

\* C5: no step of a call made for user u changes or removes a chat row whose user_id
\* is not u.
C5_OnlyOwnerChangesChat ==
    [][\A p \in Procs :
          pc'[p] # pc[p] => \A c \in chats : c.user_id # Acting(p).userId => c \in chats']_vars

\* C6: getChats(userId) returns each stored chat with user_id = userId once, and
\* nothing else.
C6_GetChatsExact ==
    [][\A p \in Procs :
          (Completes(p) /\ ret'[p].args.op = "getChats")
             => /\ {ret'[p].list[i] : i \in 1..Len(ret'[p].list)} =
                      {rowToChat(c) : c \in {x \in chats' : x.user_id = ret'[p].args.userId}}
                /\ \A i, j \in 1..Len(ret'[p].list) : i # j => ret'[p].list[i] # ret'[p].list[j]]_vars
\* one client got its chat, the other got none, and a chat is stored
C6_Witness ==
    \E p, q \in Procs :
        /\ pc[p] = "done" /\ ret[p].args.op = "getChats" /\ ret[p].list # <<>>
        /\ pc[q] = "done" /\ ret[q].args.op = "getChats" /\ ret[q].list = <<>>
        /\ \E c \in chats : c.user_id = ret[p].args.userId

\* C7: each user has at most one row in api_keys.
C7_OneKeyPerUser ==
    \A a, b \in api_keys : a.user_id = b.user_id => a = b
\* a second INSERT for the same user was rejected
C7_Witness ==
    \E p \in Procs :
        /\ pc[p] = "done" /\ ret[p].args.op = "generateApiKey"
        /\ ret[p].error = "UNIQUE constraint failed"
        /\ \E k \in api_keys : k.user_id = ret[p].args.userId

\* C8: each user has at most one row in api_settings.
C8_OneSettingsRowPerUser ==
    \A a, b \in api_settings : a.user_id = b.user_id => a = b
\* of two updateApiSettings calls for a user without a row, one was rejected
C8_Witness ==
    \E p, q \in Procs :
        /\ pc[p] = "done" /\ ret[p].args.op = "updateApiSettings" /\ ~ret[p].ok
        /\ pc[q] = "done" /\ ret[q].args.op = "updateApiSettings" /\ ret[q].ok
        /\ ret[p].args.userId = ret[q].args.userId
        /\ \E u \in users : u.id = ret[p].args.userId
        /\ \E r \in api_settings : r.user_id = ret[p].args.userId

\* C9: when generateApiKey(userId) returns k, k is a key that was not stored before,
\* it is the only key stored for userId and the only user it validates to is userId;
\* for a userId not in users the call throws 'User not found' and api_keys is unchanged.
C9_RegenerateReplaces ==
    [][\A p \in Procs :
          /\ (Completes(p) /\ ret'[p].args.op = "generateApiKey" /\ ret'[p].ok)
                => LET k == ret'[p].key
                       u == ret'[p].args.userId
                   IN  /\ \A ak \in api_keys : ak.key # k
                       /\ {ak.key : ak \in {x \in api_keys' : x.user_id = u}} = {k}
                       /\ {x.id : x \in {y \in users' : \E ak \in api_keys' :
                                             ak.user_id = y.id /\ ak.key = k}} = {u}
          /\ (Calls(p, "generateApiKey") /\ ~\E x \in users : x.id = args'[p].userId)
                => /\ pc'[p] = "done" /\ ~ret'[p].ok /\ ret'[p].error = "User not found"
                   /\ api_keys' = api_keys]_vars
\* a user got a key from createUser, then a new one from generateApiKey; the first is gone
C9_Witness ==
    \E p, q \in Procs :
        /\ pc[q] = "done" /\ ret[q].args.op = "createUser" /\ ret[q].ok
        /\ pc[p] = "done" /\ ret[p].args.op = "generateApiKey" /\ ret[p].ok
        /\ ret[p].args.userId = ret[q].user.id
        /\ ret[p].key # ret[q].key
        /\ \A ak \in api_keys : ak.key # ret[q].key
        /\ \E ak \in api_keys : ak.key = ret[p].key

\* C10: validateApiKey(k) returns the user u of the api_keys row (user_id = u, key = k)
\* and null when there is no such row; revokeApiKey(k) leaves no row with key k; no key
\* is stored for two users.
C10_ValidateMatchesKeys ==
    [][/\ \A p \in Procs :
            /\ (Completes(p) /\ ret'[p].args.op = "validateApiKey")
                  => LET k == ret'[p].args.apiKey
                         rows == {ak \in api_keys' : ak.key = k}
                     IN  /\ (ret'[p].user = Null) <=> (rows = {})
                         /\ \A ak \in rows :
                               /\ ret'[p].user.id = ak.user_id
                               /\ \E x \in users' : x.id = ak.user_id /\ ret'[p].user = rowToUser(x)
            /\ (Completes(p) /\ ret'[p].args.op = "revokeApiKey")
                  => \A ak \in api_keys' : ak.key # ret'[p].args.apiKey
       /\ \A a, b \in api_keys' : a.key = b.key => a.user_id = b.user_id]_vars
\* a key that was stored is revoked, and validating it gives null
C10_Witness ==
    \E p, q \in Procs :
        /\ pc[p] = "done" /\ ret[p].args.op = "revokeApiKey" /\ ret[p].args.apiKey = 1
        /\ pc[q] = "done" /\ ret[q].args.op = "validateApiKey" /\ ret[q].user = Null
        /\ ret[q].args.apiKey = ret[p].args.apiKey
        /\ api_keys # {}

\* the default values of an api_settings row (the column DEFAULTs of the table)
HoldsDefaults(r) ==
    /\ r.openrouter_key = "" /\ r.api_url = "https://openrouter.ai/api/v1/chat/completions"
    /\ r.model = "deepseek/deepseek-r1-distill-llama-70b:free"
    /\ r.max_tokens = 4000 /\ r.temperature = 7
\* client p's createUser call is on its new-user path and settles with a result
CreatedNew(p) ==
    /\ pc[p] = "createUser_selectUser" /\ pc'[p] = "done" /\ ret'[p].ok

\* C11 (as stated): when createUser(email) completes for an email that was not
\* registered, the stored rows of the new user are exactly one api_settings row with
\* the default values and exactly one api_keys row, whose key is the one returned.
C11_DefaultedAtCompletion ==
    [][\A p \in Procs :
          CreatedNew(p)
             => LET u == ret'[p].user.id
                IN  /\ \E r \in api_settings' :
                          {x \in api_settings' : x.user_id = u} = {r} /\ HoldsDefaults(r)
                    /\ {k.key : k \in {x \in api_keys' : x.user_id = u}} = {ret'[p].key}]_vars

\* C11 (amended): a createUser call for an unregistered email inserts, for the user
\* it created, one api_settings row holding the default values and then one api_keys
\* row, each the only such row of that user when it is inserted, and returns that
\* user and the key of that row; its last statement writes nothing. (What is stored
\* when the call settles may already be another client's doing.)
C11_DefaultedByCreateUser ==
    [][\A p \in Procs :
          /\ (pc[p] = "createUser_insertSettings" /\ pc'[p] = "createUser_insertNewKey")
                => LET u == local[p].id
                   IN  /\ \E x \in users : x.id = u /\ x.email = args[p].email
                       /\ \E r \in api_settings' :
                             /\ api_settings' \ api_settings = {r}
                             /\ {x \in api_settings' : x.user_id = u} = {r}
                             /\ HoldsDefaults(r)
          /\ (pc[p] = "createUser_insertNewKey" /\ pc'[p] = "createUser_selectUser")
                => LET u == local[p].id
                   IN  \E k \in api_keys' :
                          /\ api_keys' \ api_keys = {k}
                          /\ {x \in api_keys' : x.user_id = u} = {k}
                          /\ k.key = local'[p].key
          /\ CreatedNew(p)
                => /\ ret'[p].user.id = local[p].id /\ ret'[p].user.email = args[p].email
                   /\ ret'[p].key = local[p].key
                   /\ db' = db]_vars
\* a createUser call has written its three rows and is about to return
C11_Witness ==
    \E p \in Procs :
        /\ pc[p] = "createUser_selectUser" /\ ~args[p].isAdmin
        /\ \E r \in api_settings : r.user_id = local[p].id /\ HoldsDefaults(r)
        /\ \E k \in api_keys : k.user_id = local[p].id /\ k.key = local[p].key
        /\ Cardinality(users) = 2

\* C13: no two user rows have the same email; a createUser(email) call for an email
\* that is already registered inserts no user row and returns the existing user with
\* that user's stored API key, inserting a key only when the user has none.
C13_EmailsUnique ==
    [][/\ \A a, b \in users' : a.email = b.email => a = b
       /\ \A p \in Procs :
            /\ (Calls(p, "createUser") /\ \E u \in users : u.email = args'[p].email)
                  => pc'[p] = "createUser_selectKey" /\ users' = users
            /\ (pc[p] \in {"createUser_selectKey", "createUser_insertKey",
                           "createUser_ensureSettings"} /\ pc'[p] # pc[p])
                  => /\ users' = users
                     /\ \A k \in api_keys' \ api_keys :
                           /\ k.user_id = local[p].user.id
                           /\ \A x \in api_keys : x.user_id # k.user_id
                     /\ api_keys \subseteq api_keys'
            /\ (Completes(p) /\ ret'[p].ok
                  /\ pc[p] \in {"createUser_selectKey", "createUser_ensureSettings"})
                  => /\ \E u \in users' : u.email = args[p].email /\ ret'[p].user = rowToUser(u)
                     /\ api_keys' = api_keys
                     /\ pc[p] = "createUser_selectKey"
                           => \E k \in api_keys : k.user_id = ret'[p].user.id /\ k.key = ret'[p].key
                     /\ pc[p] = "createUser_ensureSettings" => ret'[p].key = local[p].key]_vars
\* two createUser calls for one email returned the same user and the same key, and
\* one of two calls racing for an email was rejected
C13_Witness ==
    \E p, q \in Procs :
        /\ p # q
        /\ pc[p] = "done" /\ ret[p].args.op = "createUser" /\ ret[p].ok
        /\ pc[q] = "done" /\ ret[q].args.op = "createUser" /\ ret[q].ok
        /\ ret[p].args.email = ret[q].args.email
        /\ ret[p].user = ret[q].user /\ ret[p].key = ret[q].key
        /\ Cardinality(users) = 1
        /\ \E k \in api_keys : k.key = ret[p].key

\* C12: however often and however interleaved two clients run database
\* initialization, users never holds two rows with email 'admin@example.com', the one
\* it holds has is_admin = true and is there once an initialization has run to its
\* end, and an initialization inserts a user row only into an empty users table.
C12_OneAdminBootstrap ==
    [][/\ \A a, b \in users' :
             a.email = AdminEmail /\ b.email = AdminEmail => a = b /\ a.is_admin = 1
       /\ \A p \in Procs :
            /\ (app[p].task \in InitializeDbTasks /\ app'[p].task \notin InitializeDbTasks)
                  => \E u \in users' : u.email = AdminEmail /\ u.is_admin = 1
            /\ (app[p].task \in InitializeDbTasks /\ pc'[p] # pc[p] /\ users' # users)
                  => /\ users = {}
                     /\ \E u \in users' : users' = {u} /\ u.email = AdminEmail /\ u.is_admin = 1
            /\ (app[p].task = "initializeDb_users" /\ app'[p].task = "none")
                  => users' = users /\ users # {}]_vars
\* two clients initialized at once: one shows the alert, the other's createUser was
\* rejected, and there is one user row
C12_Witness ==
    \E p, q \in Procs :
        /\ app[p].task = "reload" /\ app[p].alert # 0
        /\ app[q].task = "failed"
        /\ Cardinality(users) = 1
        /\ \E u \in users : u.email = AdminEmail /\ u.is_admin = 1

\* the API keys the open admin dialog of client p renders ("API Key: ..."), per listed user
DisplayedKeys(p) ==
    IF app[p].adminDialogOpen
    THEN {e \in app[p].userApiKeys : \E i \in 1..Len(app[p].users) : app[p].users[i].id = e.user_id}
    ELSE {}

\* C19: no state after the bootstrap alert displays the API key of the admin user:
\* the admin dialog renders no key for a user with is_admin = true.
C19_AdminKeyShownOnce ==
    \A p \in Procs : \A e \in DisplayedKeys(p) :
        ~\E u \in users : u.id = e.user_id /\ u.is_admin = 1

\* the session of client p belongs to an admin
AdminUser(user) == user # Null /\ user.is_admin
AdminOps == {"createUser", "generateApiKey", "revokeApiKey", "listUsers", "getAllApiKeys"}

SendsRequest(p) == app[p].http.state # "pending" /\ app'[p].http.state = "pending"
\* the step in which client p starts the write of a message of the given role
StartsWrite(p, role) == Calls(p, "addMessage") /\ args'[p].role = role
\* the step in which handleMessageSubmit of client p puts the assistant message on the page
ShowsReply(p) == app[p].task = "handleMessageSubmit_relay" /\ app'[p].http.relayed

\* C17: a chat created through handleNewChat with system prompt p has system_prompt = p
\* in the Chat value createChat returns, and the system turn forwarded with the chat's
\* conversations is a system prompt.
C17_ChatCarriesSystemPrompt ==
    [][\A p \in Procs :
        /\ (app[p].task = "handleNewChat" /\ Completes(p) /\ ret'[p].ok)
               => Prop(ret'[p].chat, "system_prompt") = app[p].newSystemPrompt
        /\ SendsRequest(p)
               => /\ app'[p].http.body[1].role = "system"
                  /\ app'[p].http.body[1].content \in SystemPrompts]_vars

\* C14 (as stated): while a submission's chat-completion request is out or answered
\* and the submission still waits for it, the write of the user message has completed.
C14_RequestAfterUserWrite ==
    \A p \in Procs :
        (app[p].task = "handleMessageSubmit" /\ app[p].http.state # "none")
            => pc[p] = "done" /\ ret[p].ok

\* C14 (amended): the request is sent in the step that starts the write of the user
\* message; the write of the assistant message starts only after that write has
\* completed and the request was answered; the page shows the reply only after the
\* write of the assistant message has completed.
C14_SubmitOrder ==
    [][\A p \in Procs :
        /\ SendsRequest(p) <=> (app'[p].task = "handleMessageSubmit" /\ StartsWrite(p, "user"))
        /\ (app[p].task # "none" /\ StartsWrite(p, "assistant"))
               => /\ app[p].http.state = "ok"
                  /\ app[p].savedUserMessage # Null
                  /\ app[p].savedUserMessage.role = "user"
        /\ ShowsReply(p)
               => /\ pc[p] = "done" /\ ret[p].ok
                  /\ ret[p].message.role = "assistant"
                  /\ app'[p].task = "none"]_vars

\* a submission ran through: both messages are stored and shown
C14_Witness ==
    \E p \in Procs :
        /\ app[p].task = "none" /\ app[p].http.relayed
        /\ \E i, j \in 1..Len(app[p].messages) :
              /\ i < j
              /\ app[p].messages[i].kind = "stored" /\ app[p].messages[i].role = "user"
              /\ app[p].messages[j].kind = "stored" /\ app[p].messages[j].role = "assistant"

\* the stored messages of a chat, oldest first, as { role, content } turns
StoredTurns(chatId) ==
    {[i \in 1..Len(rows) |-> [role |-> rows[i].role, content |-> rows[i].content]] :
        rows \in OrderByCreatedAsc(ChatMessagesRows(chatId))}

\* C15: the conversation handleMessageSubmit forwards is the system turn, then the
\* turns stored for the selected chat in their stored order, then the new user turn:
\* no turn that is not stored for the chat, and none twice.
C15_ForwardedConversation ==
    [][\A p \in Procs :
        SendsRequest(p)
            => LET body == app'[p].http.body
               IN  /\ Len(body) >= 2
                   /\ body[1].role = "system"
                   /\ SubSeq(body, 2, Len(body) - 1) \in StoredTurns(app[p].selectedChatId)
                   /\ body[Len(body)] = [role |-> "user", content |-> app'[p].closure.messageText]]_vars

\* C16 (as stated): once a submission is over, its assistant message has been written
\* exactly when its request returned a completion.
C16_RelayedExactlyWhenReturned ==
    \A p \in Procs :
        (app[p].task = "none" /\ app[p].http.state \in {"ok", "error"})
            => (app[p].http.relayed <=> app[p].http.state = "ok")

\* C16 (amended): handleMessageSubmit writes an assistant message only when its request
\* returned a completion and the write of its user message succeeded; the message
\* carries the completion, goes to the chat the user message was written to, and that
\* user message was stored before; a failed request is followed by no such write.
C16_CompletionRelayed ==
    [][\A p \in Procs :
        /\ (app[p].task # "none" /\ StartsWrite(p, "assistant"))
               => /\ app[p].http.state = "ok"
                  /\ app[p].savedUserMessage # Null
                  /\ args'[p].chatId = app[p].savedUserMessage.chat_id
                  /\ args'[p].content = Completion
                  /\ args'[p].userId = app[p].currentUser.id
        /\ (app[p].task = "handleMessageSubmit_relay" /\ Completes(p) /\ ret'[p].ok)
               => /\ ret'[p].message.chat_id = app[p].closure.chatId
                  /\ ret'[p].message.content = Completion
                  /\ ret'[p].message.created_at >= app[p].savedUserMessage.created_at
        /\ (app[p].task # "none" /\ app[p].http.state = "error")
               => ~StartsWrite(p, "assistant")]_vars

\* the assistant message of a submission is stored in the chat of its user message
C16_Witness ==
    \E p \in Procs :
        /\ app[p].http.state = "ok" /\ app[p].http.relayed
        /\ \E u, a \in messages :
              /\ u.role = "user" /\ a.role = "assistant"
              /\ a.chat_id = u.chat_id /\ a.content = Completion

\* client p starts a data-access call in this step
IssuesCall(p) == pc[p] = "idle" /\ pc'[p] # "idle"

\* C18: a page whose user is logged in and does nothing further eventually stops
\* issuing data-access calls.
C18_NoBackgroundWork ==
    \A p \in Procs : ~Other(p) => <>[][~IssuesCall(p)]_vars

\* a client is between the first and the last statement of an addMessage on the chat
InAddMessage(chatId) ==
    \E p \in Procs :
        /\ pc[p] \in {"addMessage_insert", "addMessage_update", "addMessage_select"}
        /\ args[p].chatId = chatId

\* C23: when no addMessage call on a chat is under way, the chat's last_message is the
\* content of the message of that chat that was inserted last.
C23_LastMessageIsLatest ==
    \A c \in chats :
        ~InAddMessage(c.id)
            => \A m \in messages :
                   (m.id = uuid.last /\ m.chat_id = c.id) => c.last_message = m.content

\* C24: a resetAdminApiKey call that returns null has left the stored admin key as it
\* was (no row of api_keys holds a key generated by that call); a call that returns a
\* key k leaves k as the only stored key of the admin.
C24_ResetChangesKeyOnlyOnSuccess ==
    [][\A p \in Procs :
        (Completes(p) /\ args[p].op = "resetAdminApiKey")
            => IF ret'[p].key = 0
               THEN \A k \in api_keys' : k.key # local[p].key
               ELSE \A u \in users' :
                        u.email = AdminEmail
                            => {k.key : k \in {r \in api_keys' : r.user_id = u.id}} = {ret'[p].key}]_vars

\* the five values of a settings object are those of the submitted form
SameSettings(settings, form) ==
    /\ settings.api_key = form.api_key /\ settings.api_url = form.api_url
    /\ settings.model = form.model /\ settings.max_tokens = form.max_tokens
    /\ settings.temperature = form.temperature

\* C22: the row the write of handleSaveSettings stores, and the apiSettings state after
\* it, hold exactly the api_key, api_url, model, max_tokens and temperature submitted.
C22_SavedAsEntered ==
    [][\A p \in Procs :
        /\ (app[p].task = "handleSaveSettings" /\ Completes(p) /\ ret'[p].ok)
               => \A r \in api_settings' :
                      r.user_id = args[p].userId => SameSettings(rowToApiSettings(r), app[p].newSettings)
        /\ (app[p].task = "handleSaveSettings" /\ app'[p].task = "none" /\ ret[p].ok)
               => SameSettings(app'[p].apiSettings, app[p].newSettings)]_vars

\* the step in which handleLogin of client p settles
LoginSettles(p) == app[p].task = "handleLogin" /\ app'[p].task = "none"

\* C21: handleLogin(k) sets currentUser to the user validateApiKey(k) returned and
\* config.userApiKey to k when it returned one; otherwise both stay as they were and
\* LoginForm ends with its error set and isLoading = false; nothing else logs a user in.
C21_LoginByKey ==
    [][\A p \in Procs :
        /\ LoginSettles(p)
               => IF ret[p].ok /\ ret[p].user # Null
                  THEN /\ app'[p].currentUser = ret[p].user
                       /\ app'[p].userApiKey = ret[p].args.apiKey
                  ELSE /\ app'[p].currentUser = app[p].currentUser
                       /\ app'[p].userApiKey = app[p].userApiKey
                       /\ app'[p].loginForm.error # ""
                       /\ ~app'[p].loginForm.isLoading
        /\ (app[p].userApiKey # app'[p].userApiKey /\ app'[p].userApiKey # 0)
               => LoginSettles(p) /\ ret[p].ok /\ ret[p].user # Null]_vars

\* a login was refused and LoginForm shows the error
C21_Witness ==
    \E p \in Procs :
        /\ app[p].task = "none" /\ app[p].currentUser = Null
        /\ app[p].loginForm.error # "" /\ ~app[p].loginForm.isLoading

\* the step in which client p logs out
LogsOut(p) == app[p].userApiKey # 0 /\ app'[p].userApiKey = 0

\* C26: handleLogout leaves config.userApiKey undefined, no key under 'apiConfig' in
\* localStorage and currentUser null, and while config.userApiKey is undefined only a
\* successful handleLogin makes currentUser non-null again.
C26_LogoutIsFinal ==
    [][\A p \in Procs :
        /\ LogsOut(p) => app'[p].currentUser = Null /\ app'[p].localStorage = 0
        /\ (app[p].currentUser = Null /\ app'[p].currentUser # Null)
               => LoginSettles(p) /\ ret[p].ok /\ ret[p].user # Null]_vars

\* the step in which a submission of client p finishes, and its temporary id
SubmitTasks == {"handleMessageSubmit", "handleMessageSubmit_assistant", "handleMessageSubmit_relay"}
SubmitFinishes(p) ==
    \/ app[p].task \in SubmitTasks /\ app'[p].task = "none"
    \/ app[p].task = "none" /\ app'[p].task = "none" /\ app'[p].submits = app[p].submits + 1
FinishedTempId(p) == IF app[p].task \in SubmitTasks THEN app[p].closure.tempMessageId
                     ELSE app'[p].submits

\* C29: when handleMessageSubmit finishes, on success or on a failure, currentMessageId
\* is null and the messages list holds no entry with the temporary id of that submission.
C29_LoadingCleared ==
    [][\A p \in Procs :
        SubmitFinishes(p)
           => /\ app'[p].currentMessageId = 0
              /\ \A i \in 1..Len(app'[p].messages) :
                    ~(app'[p].messages[i].kind = "temp"
                        /\ app'[p].messages[i].id = FinishedTempId(p))]_vars

\* C25: every entry of the messages list has the chat_id of the selected chat, and the
\* list is empty when no chat is selected.
C25_ThreadOfSelectedChat ==
    \A p \in Procs :
        /\ \A i \in 1..Len(app[p].messages) :
              app[p].messages[i].chat_id = app[p].selectedChatId
        /\ app[p].selectedChatId = 0 => app[p].messages = <<>>

\* C30: while an onSubmit call that ChatForm started has not settled the form is
\* submitting, so that its handler returns at once; a submission starts only from a
\* form that is not submitting, is not disabled and holds more than white space; and
\* isSubmitting is false again when the call has settled.
C30_OneSubmissionInFlight ==
    [][\A p \in Procs :
        /\ app[p].task \in SubmitTasks => app[p].chatForm.isSubmitting
        /\ app'[p].task \in SubmitTasks => app'[p].chatForm.isSubmitting
        /\ app'[p].submits # app[p].submits
              => /\ app[p].task \notin SubmitTasks /\ ~app[p].chatForm.isSubmitting
                 /\ ~ChatFormDisabled(p)
                 /\ trim(app[p].chatForm.message) # <<>>
        /\ SubmitFinishes(p) => ~app'[p].chatForm.isSubmitting]_vars

\* a submission that the form started is in flight
C30_Witness ==
    \E p \in Procs : app[p].task \in SubmitTasks /\ app[p].chatForm.isSubmitting

\* C27: whenever db is non-null it was created from the current config.tursoUrl and
\* config.tursoAuthToken and its initializeTables has completed, also after the
\* connection settings were changed while an earlier run was still in flight.
C27_HandleMatchesConfig ==
    \A p \in Procs :
        app[p].db # Null => app[p].db.config = app[p].config /\ app[p].db.initialized

\* the settings were changed while a run was in flight, and the new run has set db
C27_Witness ==
    \E p \in Procs, c \in Configs :
        /\ app[p].db # Null
        /\ app[p].run[c].superseded /\ app[p].run[c].task \notin {"idle", "ready", "failed"}

\* a run of the effect of client p is in flight for the current configuration
RunInFlight(p, c) ==
    /\ app[p].run[c].task \in {"initializeTables", "listUsers", "createUser", "createUser_called"}
    /\ ~app[p].run[c].superseded

\* C28: a run of the initialization effect that is not superseded reaches
\* isDbReady = true or the reload of the page; after a failed run db is null and
\* dbConnectionError is set; without URL or token db is null, isDbReady is true and no
\* run and no database call is started.
C28_InitializationSettles ==
    /\ \A p \in Procs, c \in Configs :
          RunInFlight(p, c)
             ~> (app[p].isDbReady \/ app[p].run[c].task = "alert" \/ app[p].run[c].superseded)
    /\ [](\A p \in Procs, c \in Configs :
            (app[p].run[c].task = "failed" /\ ~app[p].run[c].superseded)
               => app[p].db = Null /\ app[p].dbConnectionError # "")
    /\ [](\A p \in Procs :
            app[p].config = 0
               => /\ app[p].db = Null /\ app[p].isDbReady /\ pc[p] = "idle"
                  /\ \A c \in Configs : app[p].run[c].task = "idle")

\* a run has failed and the page shows the settings screen
C28_Witness ==
    \E p \in Procs, c \in Configs :
        /\ app[p].run[c].task = "failed" /\ ~app[p].run[c].superseded
        /\ app[p].isDbReady /\ app[p].dbConnectionError # ""


====
